---- MODULE Spec2Model ----
(***************************************************************************)
(* Model of the sheet ledger of Yappi-crm: the layout registry             *)
(* (src/config/sheets_config.py), the row placement and row primitives of  *)
(* SheetsClient (src/services/sheets/client.py) and the compensating       *)
(* transaction SheetTransaction (src/services/sheets/transaction.py), and  *)
(* the order dialogue's confirmation and the payment dialogue with its     *)
(* FIFO distribution (src/bot/handlers/orders.py).                         *)
(*                                                                         *)
(* An operation that awaits store calls is modelled by the SET of outcomes *)
(* it can produce, one per combination of outcomes of its store calls: a   *)
(* store call succeeds, raises googleapiclient's HttpError, or raises      *)
(* another exception (a transport error), which no "except HttpError"      *)
(* catches.                                                                *)
(***************************************************************************)
EXTENDS Integers, Sequences, FiniteSets, TLC

VARIABLES
    registry,   \* the layout registry in force: sheet key -> SheetConfig
    sheets,     \* the spreadsheet: sheet key -> row number -> column -> cell
    call,       \* the last SheetsClient call made directly: arguments and result
    tx,         \* the SheetTransaction object: _operations, _committed
    result,     \* what the last commit() returned (a TransactionResult) or raised
    last,       \* the last call made on the transaction object
    trace,      \* the client calls the last commit() or handler issued, in order
    fsm,        \* the dialogue of one chat: FSM state and data
    sessions    \* the write_row call each concurrent handler task is in

vars == <<registry, sheets, call, tx, result, last, trace, fsm, sessions>>

None == "None"
Empty == ""

\* ---------------------------------------------------------------- bounds
\* The lookahead window: the code reads rows start_row .. start_row + 500.
Window == 2
\* Longest queue of a transaction.
MaxOps == 3

\* ------------------------------------------------------- layout registry
\* The columns of a row that the model keeps: the identifier column, one
\* protected column (B stands for B to E), the first two data columns of the
\* tables that start at F, and the first two columns of the designer strip
\* of the pure-income sheet (I, J).
Columns == {"A", "B", "F", "G", "I", "J"}

\* ord(col) - ord('A')
ColIndex(col) ==
    CASE col = "A" -> 0 [] col = "B" -> 1 [] col = "F" -> 5 [] col = "G" -> 6
      [] col = "I" -> 8 [] col = "J" -> 9

\* A SheetConfig has exactly the fields of the dataclass; data_columns is
\* kept as its two ends (the data_start_col / data_end_col properties), the
\* end brought back to the last data column the model keeps.
SheetConfig(name, data_start_col, data_end_col, start_row, protected_columns, skip_rows) ==
    [name |-> name, id_column |-> "A",
     data_start_col |-> data_start_col, data_end_col |-> data_end_col,
     start_row |-> start_row, protected_columns |-> protected_columns,
     skip_rows |-> skip_rows]

DESIGNER_DATA == SheetConfig("Designer DATA", "F", "G", 19, {"B"}, {20})
CLIENTS_DATA == SheetConfig("Clients DATA", "F", "G", 13, {"B"}, {})
EXPENSES == SheetConfig("Expenses", "F", "G", 12, {"B"}, {})
PURE_INCOME == SheetConfig("Pure income", "F", "G", 14, {"B"}, {})
GENERAL == SheetConfig("GENERAL", "G", "G", 13, {"B"}, {9, 10, 11, 12})
PAYMENTS == SheetConfig("Payments", "B", "F", 2, {}, {})
CATEGORIES == SheetConfig("Categories", "B", "B", 2, {}, {})

SHEETS_CONFIG ==
    [k \in {"designer_data", "clients_data", "expenses", "pure_income", "general",
            "payments", "categories"} |->
        CASE k = "designer_data" -> DESIGNER_DATA
          [] k = "clients_data" -> CLIENTS_DATA
          [] k = "expenses" -> EXPENSES
          [] k = "pure_income" -> PURE_INCOME
          [] k = "general" -> GENERAL
          [] k = "payments" -> PAYMENTS
          [] k = "categories" -> CATEGORIES]

\* get_sheet_config: the registered config, or KeyError.
get_sheet_config(sheet_key) ==
    IF sheet_key \in DOMAIN registry
    THEN [raised |-> None, config |-> registry[sheet_key]]
    ELSE [raised |-> "KeyError"]

\* ------------------------------------------------------------- the store
\* The rows of a table that the model keeps: from start_row to past the
\* lookahead window, far enough for every row a placement can return.
LastGridRow(config) == config.start_row + Window + 1 + Cardinality(config.skip_rows)
GridRows(config) == config.start_row .. LastGridRow(config)

EmptyRow == [c \in Columns |-> Empty]

\* Outcomes of one store call.
StoreOutcomes == {"ok", "HttpError", "Error"}

\* values().get on one column, rows r1..r2: one entry per row up to the last
\* non-empty cell (the API drops trailing empty rows; an empty row in the
\* middle comes back as an empty list, modelled by Empty).
RECURSIVE LastFilled(_, _, _, _)
LastFilled(grid, col, r1, r) ==
    IF r < r1 THEN r1 - 1
    ELSE IF r \in DOMAIN grid /\ grid[r][col] # Empty THEN r
    ELSE LastFilled(grid, col, r1, r - 1)

get_range(grid, col, r1, r2) ==
    LET hi == LastFilled(grid, col, r1, r2)
    IN  [i \in 1 .. (hi - r1 + 1) |-> grid[r1 + i - 1][col]]

\* ------------------------------------------------------------- placement
\* The skip test made once: "if" where the code has "while".
PastSkipRowsOnce(row, skip_rows) ==
    IF row \in skip_rows THEN row + 1 ELSE row

\* "while result_row in config.skip_rows: result_row += 1"
RECURSIVE PastSkipRows(_, _)
PastSkipRows(row, skip_rows) ==
    IF row \in skip_rows THEN PastSkipRows(row + 1, skip_rows) ELSE row

\* "for i, row in enumerate(data)": the first row from index i on that is not
\* a skip row and whose cell is empty, or 0 when the loop ends without one
\* (rows are 1-based).
RECURSIVE FirstEmptyIn(_, _, _)
FirstEmptyIn(data, i, config) ==
    IF i > Len(data) THEN 0
    ELSE IF (config.start_row + i - 1) \notin config.skip_rows /\ data[i] = Empty
         THEN config.start_row + i - 1
         ELSE FirstEmptyIn(data, i + 1, config)

\* "check_column or config.data_start_col": the lookup of the attribute left out.
col_to_check_no_attribute(check_column, config) ==
    IF check_column # None THEN [raised |-> None, col |-> check_column]
    ELSE [raised |-> None, col |-> config.data_start_col]

\* "check_column or config.check_column or config.data_start_col": Python
\* evaluates config.check_column when check_column is None, and a SheetConfig
\* has no such attribute.
col_to_check(check_column, config) ==
    IF check_column # None THEN [raised |-> None, col |-> check_column]
    ELSE IF "check_column" \notin DOMAIN config THEN [raised |-> "AttributeError"]
    ELSE IF config.check_column # None THEN [raised |-> None, col |-> config.check_column]
    ELSE [raised |-> None, col |-> config.data_start_col]

\* get_first_empty_row on the store sh, under one outcome of its read.
get_first_empty_row(sh, sheet_key, check_column, read) ==
    LET cfg == get_sheet_config(sheet_key) IN
    IF cfg.raised # None THEN [raised |-> cfg.raised]
    ELSE
    LET config == cfg.config
        col == col_to_check(check_column, config)
    IN
    IF col.raised # None THEN [raised |-> col.raised]
    ELSE IF read = "Error" THEN [raised |-> "Error"]
    ELSE IF read = "HttpError"
    THEN [raised |-> None, row |-> PastSkipRows(config.start_row, config.skip_rows)]
    ELSE
    LET data == get_range(sh[sheet_key], col.col, config.start_row,
                          config.start_row + Window)
        found == FirstEmptyIn(data, 1, config)
    IN
    IF data = <<>>
    THEN [raised |-> None, row |-> PastSkipRows(config.start_row, config.skip_rows)]
    ELSE IF found # 0 THEN [raised |-> None, row |-> found]
    ELSE [raised |-> None,
          row |-> PastSkipRows(config.start_row + Len(data), config.skip_rows)]

\* ------------------------------------------------------- row primitives
\* The result of a client call: the store it leaves, what it raised (None if
\* it returned) and what it returned.
Outcome(sh, raised, ret) == [sheets |-> sh, raised |-> raised, ret |-> ret]

\* write_row's update_range of A{row}:G{row} with full_row: the operation id
\* in the identifier column, "" in every column between it and the data
\* columns (an empty string written with USER_ENTERED empties the cell), the
\* data from data_start_col on; cells past the data given are not in full_row.
full_row(config, operation_id, data) ==
    [c \in { c \in Columns : ColIndex(c) < ColIndex(config.data_start_col) + Len(data) } |->
        IF c = config.id_column THEN operation_id
        ELSE IF ColIndex(c) < ColIndex(config.data_start_col) THEN Empty
        ELSE data[ColIndex(c) - ColIndex(config.data_start_col) + 1]]

update_range(sh, sheet_key, row, values) ==
    [sh EXCEPT ![sheet_key][row] =
        [c \in DOMAIN @ |-> IF c \in DOMAIN values THEN values[c] ELSE @[c]]]

\* A deletion of the row's dimension instead of a clearing of its cells:
\* the rows below move up by one and an empty row enters at the bottom.
delete_dimension(sh, sheet_key, row, config) ==
    [sh EXCEPT ![sheet_key] =
        [r \in DOMAIN @ |-> IF r < row THEN @[r]
                            ELSE IF r + 1 \in DOMAIN @ THEN @[r + 1]
                            ELSE [c \in DOMAIN @[r] |-> Empty]]]

\* clear_range of A{row}:G{row}: every cell from the identifier column to
\* data_end_col is emptied.
clear_range(sh, sheet_key, row, config) ==
    [sh EXCEPT ![sheet_key][row] =
        [c \in Columns |->
            IF ColIndex(config.id_column) <= ColIndex(c)
               /\ ColIndex(c) <= ColIndex(config.data_end_col)
            THEN Empty ELSE @[c]]]

\* write_row: the placement (unless row_number is given; 0 stands for None),
\* the update_range, then three format_cells calls. format_cells swallows
\* HttpError and changes no value; another exception in it leaves write_row
\* raising after the row is stored.
write_row(sh, sheet_key, operation_id, data, row_number) ==
    LET cfg == get_sheet_config(sheet_key) IN
    IF cfg.raised # None THEN {Outcome(sh, cfg.raised, 0)}
    ELSE
    LET config == cfg.config
        placements ==
            IF row_number # 0 THEN {[raised |-> None, row |-> row_number]}
            ELSE { get_first_empty_row(sh, sheet_key, None, read) : read \in StoreOutcomes }
    IN  UNION {
            IF p.raised # None THEN {Outcome(sh, p.raised, 0)}
            ELSE LET written == update_range(sh, sheet_key, p.row,
                                             full_row(config, operation_id, data))
                 IN  { Outcome(sh, "HttpError", 0),
                       Outcome(sh, "Error", 0),
                       Outcome(written, "Error", 0),
                       Outcome(written, None, p.row) }
            : p \in placements }

\* "for i, row in enumerate(data): if row and row[0] == operation_id": the
\* index of the first match from i on, or 0.
RECURSIVE FirstMatch(_, _, _)
FirstMatch(data, i, operation_id) ==
    IF i > Len(data) THEN 0
    ELSE IF data[i] = operation_id THEN i
    ELSE FirstMatch(data, i + 1, operation_id)

\* find_row_by_operation_id under one outcome of its read: the row, or 0 for
\* None (also when the read raised HttpError).
find_row_by_operation_id(sh, sheet_key, operation_id, read) ==
    LET cfg == get_sheet_config(sheet_key) IN
    IF cfg.raised # None THEN [raised |-> cfg.raised, row |-> 0]
    ELSE IF read = "Error" THEN [raised |-> "Error", row |-> 0]
    ELSE IF read = "HttpError" THEN [raised |-> None, row |-> 0]
    ELSE
    LET config == cfg.config
        data == get_range(sh[sheet_key], config.id_column, config.start_row,
                          config.start_row + Window)
        i == FirstMatch(data, 1, operation_id)
    IN  [raised |-> None, row |-> IF i = 0 THEN 0 ELSE config.start_row + i - 1]

\* delete_row_by_operation_id under one outcome of its read and of its clear:
\* False when the row is not found, else the cells A{row}:{data_end_col}{row}
\* are cleared (clear_range re-raises what the store raised).
delete_row_under(sh, sheet_key, operation_id, read, clear) ==
    LET f == find_row_by_operation_id(sh, sheet_key, operation_id, read) IN
    IF f.raised # None THEN Outcome(sh, f.raised, FALSE)
    ELSE IF f.row = 0 THEN Outcome(sh, None, FALSE)
    ELSE IF clear = "ok"
    THEN Outcome(clear_range(sh, sheet_key, f.row, registry[sheet_key]), None, TRUE)
    ELSE Outcome(sh, clear, FALSE)

\* delete_row_by_operation_id: every outcome of the call.
delete_row_by_operation_id(sh, sheet_key, operation_id) ==
    { delete_row_under(sh, sheet_key, operation_id, read, clear) :
        read \in StoreOutcomes, clear \in StoreOutcomes }

\* ------------------------------------------------------ SheetTransaction
\* str(uuid.uuid4()): the operation id of the transaction, fresh at its
\* construction; OtherId is the id of an operation made before it.
TxId == "tx"
OtherId == "other"

\* The one row of data the model queues and writes.
RowData == <<"date", "amount">>

SheetOperation(sheet_key, data) ==
    [sheet_key |-> sheet_key, data |-> data, status |-> "pending", row_number |-> 0]

\* _rollback: a compensating delete for each committed operation, in order;
\* an operation becomes ROLLED_BACK only when its delete returned True, and a
\* delete that returns False or raises is logged and nothing else.
RECURSIVE _rollback(_, _, _)
_rollback(j, n, st) ==
    IF j > n THEN {st}
    ELSE UNION {
            _rollback(j + 1, n,
                [st EXCEPT !.sheets = d.sheets,
                           !.ops[j].status =
                               IF d.raised = None /\ d.ret THEN "rolled_back" ELSE @,
                           !.trace = Append(@, [call |-> "delete_row_by_operation_id",
                                                op |-> j, raised |-> d.raised,
                                                ret |-> d.ret])])
            : d \in delete_row_by_operation_id(st.sheets, st.ops[j].sheet_key, TxId) }

\* The loop going on to the next operation after a write has raised.
RECURSIVE run_operations_on(_, _)
run_operations_on(i, st) ==
    IF i > Len(st.ops) THEN {st}
    ELSE UNION {
            LET called == [st EXCEPT !.sheets = w.sheets,
                                     !.trace = Append(@, [call |-> "write_row", op |-> i,
                                                          raised |-> w.raised,
                                                          ret |-> w.raised = None])]
            IN  IF w.raised = None
                THEN run_operations_on(i + 1,
                        [called EXCEPT !.ops[i].status = "committed",
                                       !.ops[i].row_number = w.ret])
                ELSE run_operations_on(i + 1,
                        [called EXCEPT !.ops[i].status = "failed",
                                       !.failed = IF @ = 0 THEN i ELSE @,
                                       !.error = IF st.failed = 0 THEN w.raised ELSE @])
            : w \in write_row(st.sheets, st.ops[i].sheet_key, TxId, st.ops[i].data, 0) }

\* The loop of commit from operation i on: a write that returns makes its
\* operation COMMITTED and the loop goes on; the first write that raises makes
\* its operation FAILED and ends the loop, and the operations committed so
\* far (1 .. i-1) are rolled back.
RECURSIVE run_operations(_, _)
run_operations(i, st) ==
    IF i > Len(st.ops) THEN {st}
    ELSE UNION {
            LET called == [st EXCEPT !.sheets = w.sheets,
                                     !.trace = Append(@, [call |-> "write_row", op |-> i,
                                                          raised |-> w.raised,
                                                          ret |-> w.raised = None])]
            IN  IF w.raised = None
                THEN run_operations(i + 1,
                        [called EXCEPT !.ops[i].status = "committed",
                                       !.ops[i].row_number = w.ret])
                ELSE _rollback(1, i - 1,
                        [called EXCEPT !.ops[i].status = "failed",
                                       !.failed = i,
                                       !.error = w.raised])
            : w \in write_row(st.sheets, st.ops[i].sheet_key, TxId, st.ops[i].data, 0) }

\* "[op for op in ops if op.status == status]", from index i on.
RECURSIVE WithStatus(_, _, _)
WithStatus(ops, i, status) ==
    IF i > Len(ops) THEN <<>>
    ELSE (IF ops[i].status = status THEN <<i>> ELSE <<>>) \o WithStatus(ops, i + 1, status)

\* The result with error_msg never filled in.
TransactionResultNoError(st) ==
    IF st.failed = 0
    THEN [kind |-> "returned", success |-> TRUE,
          committed_operations |-> WithStatus(st.ops, 1, "committed"),
          failed_operation |-> 0, error |-> None]
    ELSE [kind |-> "returned", success |-> FALSE,
          committed_operations |-> WithStatus(st.ops, 1, "rolled_back"),
          failed_operation |-> st.failed, error |-> None]

\* The TransactionResult commit returns for a finished run; operations are
\* named by their place in the queue (failed_operation 0 stands for None).
TransactionResult(st) ==
    IF st.failed = 0
    THEN [kind |-> "returned", success |-> TRUE,
          committed_operations |-> WithStatus(st.ops, 1, "committed"),
          failed_operation |-> 0, error |-> None]
    ELSE [kind |-> "returned", success |-> FALSE,
          committed_operations |-> WithStatus(st.ops, 1, "rolled_back"),
          failed_operation |-> st.failed, error |-> st.error]

\* Whether commit marks the transaction committed before it returns: not on
\* the early return for an empty queue.
marks_committed(operations) == operations # <<>>

\* add_row
AddRow ==
    \E sheet_key \in DOMAIN registry :
        IF tx.committed
        THEN /\ last' = [op |-> "add_row", raised |-> "ValueError",
                         commit_returned |-> last.commit_returned,
                         after_commit |-> last.commit_returned,
                         queue_before |-> tx.operations]
             /\ UNCHANGED <<registry, sheets, call, tx, result, trace, fsm, sessions>>
        ELSE /\ Len(tx.operations) < MaxOps
             /\ tx' = [tx EXCEPT !.operations = Append(@, SheetOperation(sheet_key, RowData))]
             /\ last' = [op |-> "add_row", raised |-> None,
                         commit_returned |-> last.commit_returned,
                         after_commit |-> last.commit_returned,
                         queue_before |-> tx.operations]
             /\ UNCHANGED <<registry, sheets, call, result, trace, fsm, sessions>>

\* commit
Commit ==
    IF tx.committed
    THEN /\ result' = [kind |-> "raised", raised |-> "ValueError"]
         /\ last' = [op |-> "commit", raised |-> "ValueError",
                     commit_returned |-> last.commit_returned,
                     after_commit |-> last.commit_returned,
                     queue_before |-> tx.operations]
         /\ trace' = <<>>
         /\ UNCHANGED <<registry, sheets, call, tx, fsm, sessions>>
    ELSE \E st \in run_operations(1, [sheets |-> sheets, ops |-> tx.operations,
                                      trace |-> <<>>, failed |-> 0, error |-> None]) :
            /\ sheets' = st.sheets
            /\ tx' = [operations |-> st.ops,
                      committed |-> marks_committed(tx.operations)]
            /\ result' = TransactionResult(st)
            /\ trace' = st.trace
            /\ last' = [op |-> "commit", raised |-> None,
                        commit_returned |-> TRUE,
                        after_commit |-> last.commit_returned,
                        queue_before |-> tx.operations]
            /\ UNCHANGED <<registry, call, fsm, sessions>>

\* ------------------------------------------------- placement, as a function
\* Table configurations and column contents tried by SpecPlacement.
StartRows == {1, 10}
PlacementKey == "table"

PlacementConfigs ==
    { SheetConfig("Table", "F", "G", s, {"B"}, k) :
        s \in StartRows, k \in UNION { SUBSET (st .. st + Window + 1) : st \in StartRows } }

\* Every content of the liveness column F over the rows the model keeps.
ColumnContents(config) ==
    { [r \in GridRows(config) |-> [EmptyRow EXCEPT !["F"] = f[r]]] :
        f \in [GridRows(config) -> {Empty, "x"}] }

NoCall == [op |-> None]
NoTx == [operations |-> <<>>, committed |-> FALSE]
NoResult == [kind |-> None]
NoLast == [op |-> None, commit_returned |-> FALSE]
NoFsm == [state |-> None, data |-> <<>>]
Sessions == {"s1", "s2"}
NoSessions == [s \in Sessions |-> [pc |-> "idle"]]

InitPlacement ==
    /\ \E config \in PlacementConfigs :
          /\ config.skip_rows \subseteq config.start_row .. config.start_row + Window + 1
          /\ registry = [k \in {PlacementKey} |-> config]
          /\ \E grid \in ColumnContents(config) : sheets = [k \in {PlacementKey} |-> grid]
    /\ call = NoCall
    /\ tx = NoTx
    /\ result = NoResult
    /\ last = NoLast
    /\ trace = <<>>
    /\ fsm = NoFsm
    /\ sessions = NoSessions

\* A caller invokes get_first_empty_row, with or without a check column, and
\* the read it makes ends in one of the store outcomes.
\* The call record keeps the invocation made before it (its arguments, its
\* result and the store it ran on); get_first_empty_row issues reads only.
GetFirstEmptyRow ==
    \E check_column \in {None, "F"}, read \in StoreOutcomes :
        /\ call' = [op |-> "get_first_empty_row", sheet_key |-> PlacementKey,
                    check_column |-> check_column, read |-> read,
                    ret |-> get_first_empty_row(sheets, PlacementKey, check_column, read),
                    before |-> IF call.op = None THEN NoCall
                               ELSE [op |-> call.op, check_column |-> call.check_column,
                                     read |-> call.read, ret |-> call.ret,
                                     sheets |-> sheets]]
        /\ UNCHANGED <<registry, sheets, tx, result, last, trace, fsm, sessions>>

NextPlacement == GetFirstEmptyRow

SpecPlacement == InitPlacement /\ [][NextPlacement]_vars

\* ---------------------------------------------------- claims on placement
Min(S) == CHOOSE r \in S : \A q \in S : r <= q

\* The row the specification of placement names: the smallest row of the
\* window that is no skip row and whose liveness cell is empty, else the first
\* row after the window that is no skip row.
SpecifiedRow(config, grid, col) ==
    LET free == { r \in config.start_row .. config.start_row + Window :
                    r \notin config.skip_rows /\ grid[r][col] = Empty }
    IN  IF free # {} THEN Min(free)
        ELSE Min({ r \in config.start_row + Window + 1 .. LastGridRow(config) + 1 :
                    r \notin config.skip_rows })

\* C9: get_first_empty_row(table), called as the claim and every caller of the
\* repository call it (no check column) and with a read that succeeds, returns
\* the smallest row at or after start_row that is no skip row and has an empty
\* liveness cell in the window, else the first row after the rows read that
\* is no skip row.
C9_ReturnsFirstEmptyRow ==
    (call.op = "get_first_empty_row" /\ call.check_column = None /\ call.read = "ok")
        => /\ call.ret.raised = None
           /\ call.ret.row = SpecifiedRow(registry[call.sheet_key], sheets[call.sheet_key],
                                          registry[call.sheet_key].data_start_col)

\* The algorithm itself, reached with an explicit check column and a read that
\* succeeds, returns the specified row.
PlacementWithExplicitColumn ==
    (call.op = "get_first_empty_row" /\ call.check_column # None /\ call.read = "ok")
        => /\ call.ret.raised = None
           /\ call.ret.row = SpecifiedRow(registry[call.sheet_key], sheets[call.sheet_key],
                                          call.check_column)

\* C10: for every sheet content and table configuration, a row returned by
\* get_first_empty_row is no member of skip_rows and is not below start_row.
C10_RowNotSkippedNorBelowStart ==
    (call.op = "get_first_empty_row" /\ call.ret.raised = None)
        => /\ call.ret.row \notin registry[call.sheet_key].skip_rows
           /\ call.ret.row >= registry[call.sheet_key].start_row

\* C10's case: start_row 10, skip_rows {12}, rows 10 and 11 occupied, gives 13.
C10_Witness ==
    /\ call.op = "get_first_empty_row"
    /\ call.read = "ok"
    /\ registry[PlacementKey].start_row = 10
    /\ registry[PlacementKey].skip_rows = {12}
    /\ \A r \in GridRows(registry[PlacementKey]) :
          (sheets[PlacementKey][r]["F"] # Empty) <=> (r \in {10, 11})
    /\ call.ret.raised = None
    /\ call.ret.row = 13

\* Two invocations in a row on the same table with the same arguments; no
\* action of SpecPlacement writes the store between them.
Reinvoked ==
    /\ call.op = "get_first_empty_row"
    /\ call.before.op = "get_first_empty_row"
    /\ call.check_column = call.before.check_column

\* C11: get_first_empty_row is idempotent: two invocations on the same table
\* with no store write between them, each returning a row, return the same
\* row, and the store is as it was before the first.
C11_SameRowOnReinvocation ==
    (Reinvoked /\ call.ret.raised = None /\ call.before.ret.raised = None)
        => /\ call.ret.row = call.before.ret.row
           /\ sheets = call.before.sheets

\* Two invocations whose reads ended the same way have the same result, and
\* no invocation changes the store.
SameResultWhenReadsAgree ==
    Reinvoked => /\ (call.read = call.before.read => call.ret = call.before.ret)
                 /\ sheets = call.before.sheets

\* ------------------------------------------------ the transaction's runs
\* The tables as the transaction finds them: each empty, or holding one row
\* of an earlier operation at its first writable row.
EmptyGrid(config) == [r \in GridRows(config) |-> EmptyRow]

FirstRowTaken(config) ==
    LET row == PastSkipRows(config.start_row, config.skip_rows)
    IN  [EmptyGrid(config) EXCEPT ![row] =
            [c \in Columns |->
                IF c \in DOMAIN full_row(config, OtherId, RowData)
                THEN (IF c \in config.protected_columns THEN "chart"
                      ELSE full_row(config, OtherId, RowData)[c])
                ELSE Empty]]

\* The tables of the order ledgers that an earlier operation may have written.
OrderTables == {"designer_data", "clients_data", "general"}

InitialStores ==
    { [k \in DOMAIN SHEETS_CONFIG |->
          IF k \in taken THEN FirstRowTaken(SHEETS_CONFIG[k])
          ELSE EmptyGrid(SHEETS_CONFIG[k])] : taken \in SUBSET OrderTables }

InitTx ==
    /\ registry = SHEETS_CONFIG
    /\ sheets \in InitialStores
    /\ call = NoCall
    /\ tx = NoTx
    /\ result = NoResult
    /\ last = NoLast
    /\ trace = <<>>
    /\ fsm = NoFsm
    /\ sessions = NoSessions

NextTx == AddRow \/ Commit

SpecTx == InitTx /\ [][NextTx]_vars

\* ------------------------------------------------ claims on transactions
Returned == last.op = "commit" /\ last.raised = None

\* The row of queued write i is in its table: the row the write was given
\* carries the transaction's id and the queued data.
Present(i) ==
    LET op == tx.operations[i]
        row == full_row(registry[op.sheet_key], TxId, op.data)
    IN  /\ op.row_number # 0
        /\ \A c \in DOMAIN row : sheets[op.sheet_key][op.row_number][c] = row[c]

NoRowOfTx ==
    \A k \in DOMAIN sheets : \A r \in DOMAIN sheets[k] : sheets[k][r]["A"] # TxId

WriteCalls == SelectSeq(trace, LAMBDA c : c.call = "write_row")
DeleteCalls == SelectSeq(trace, LAMBDA c : c.call = "delete_row_by_operation_id")
FailedWrites == { j \in 1 .. Len(WriteCalls) : WriteCalls[j].raised # None }

C7_NoUseAfterCommit ==
    (last.op # None /\ last.after_commit) =>
        /\ last.raised = "ValueError"
        /\ tx.operations = last.queue_before
        /\ (last.op = "commit" => trace = <<>>)

\* ------------------------------------------------- the order confirmation
\* str(uuid.uuid4()) of confirm_order, and datetime.now() formatted.
OrderId == "order"
date_str == "06.11.2026"

\* A handler's run so far: the store, the client calls made, what the last
\* call raised and returned.
Begin(sh) == [sheets |-> sh, trace |-> <<>>, raised |-> None, ret |-> 0]

Called(st, name, target, w) ==
    [sheets |-> w.sheets,
     trace |-> Append(st.trace, [call |-> name, target |-> target,
                                 raised |-> w.raised, ret |-> w.ret]),
     raised |-> w.raised, ret |-> w.ret]

\* Sequencing inside a try block: the next call is made from every run that
\* has not raised.
Then(runs, next(_)) ==
    UNION { IF st.raised # None THEN {st} ELSE next(st) : st \in runs }

\* initialize: nothing when already initialized, else the service is built in
\* the executor, which may raise.
initialize(sh) == { Outcome(sh, None, TRUE), Outcome(sh, "Error", FALSE) }

\* update_cell: update_range of one cell; HttpError is logged and False is
\* returned, another exception propagates. A cell outside the rows and
\* columns the model keeps changes nothing the model keeps.
update_cell(sh, sheet_key, row, col, value) ==
    LET updated == IF row \in DOMAIN sh[sheet_key] /\ col \in DOMAIN sh[sheet_key][row]
                   THEN update_range(sh, sheet_key, row, [c \in {col} |-> value])
                   ELSE sh
    IN  { Outcome(updated, None, TRUE), Outcome(sh, None, FALSE), Outcome(sh, "Error", FALSE) }

\* update_sum_formula: update_range of the formula cell (F4, above the rows
\* the model keeps); HttpError is logged and False is returned.
update_sum_formula(sh, sheet_key, formula_row, formula_col) ==
    update_cell(sh, sheet_key, formula_row, formula_col, "=SUM")

\* format_cells and add_row_borders: no cell value changes; HttpError is
\* logged and False is returned, another exception propagates.
format_cells(sh) == { Outcome(sh, None, TRUE), Outcome(sh, None, FALSE), Outcome(sh, "Error", FALSE) }
add_row_borders(sh) == format_cells(sh)

\* get_last_data_row under one outcome of its read: the last row of the
\* window with data in the column, or start_row - 1.
get_last_data_row(sh, sheet_key, check_column, start_row, read) ==
    IF read = "Error" THEN [raised |-> "Error"]
    ELSE IF read = "HttpError" THEN [raised |-> None, row |-> start_row - 1]
    ELSE [raised |-> None,
          row |-> LastFilled(sh[sheet_key], check_column, start_row, start_row + Window)]

\* write_designer_to_pure_income: the row after the last row of the designer
\* strip (column I), then four update_cell calls whose results are not
\* looked at (A, I, J, K), the borders and the format of the id cell. A
\* cell holds the text of the number entered in it.
write_designer_to_pure_income(sh, operation_id, designer, order_amount, agency_income) ==
    LET config == registry["pure_income"] IN
    UNION {
        LET last_row == get_last_data_row(sh, "pure_income", "I", config.start_row, read) IN
        IF last_row.raised # None THEN {Outcome(sh, last_row.raised, 0)}
        ELSE
        LET new_row == IF last_row.row < config.start_row THEN config.start_row
                       ELSE last_row.row + 1
            a == Then({Begin(sh)}, LAMBDA st :
                    { Called(st, "update_cell", "A", w) :
                        w \in update_cell(st.sheets, "pure_income", new_row, "A", operation_id) })
            i == Then(a, LAMBDA st :
                    { Called(st, "update_cell", "I", w) :
                        w \in update_cell(st.sheets, "pure_income", new_row, "I", designer) })
            j == Then(i, LAMBDA st :
                    { Called(st, "update_cell", "J", w) :
                        w \in update_cell(st.sheets, "pure_income", new_row, "J", ToString(order_amount)) })
            k == Then(j, LAMBDA st :
                    { Called(st, "update_cell", "K", w) :
                        w \in update_cell(st.sheets, "pure_income", new_row, "K", ToString(agency_income)) })
            b == Then(k, LAMBDA st :
                    { Called(st, "add_row_borders", "I:K", w) : w \in add_row_borders(st.sheets) })
            f == Then(b, LAMBDA st :
                    { Called(st, "format_cells", "A", w) : w \in format_cells(st.sheets) })
        IN  { Outcome(st.sheets, st.raised, IF st.raised = None THEN new_row ELSE 0) : st \in f }
        : read \in StoreOutcomes }

\* update_range as a call: the cells are stored, or the store raises and
\* update_range re-raises. Cells outside the rows the model keeps change
\* nothing the model keeps.
update_range_call(sh, sheet_key, row, values) ==
    { Outcome(IF row \in DOMAIN sh[sheet_key] THEN update_range(sh, sheet_key, row, values)
              ELSE sh, None, TRUE),
      Outcome(sh, "HttpError", FALSE),
      Outcome(sh, "Error", FALSE) }

\* write_to_general: initialize, then the lookups of the layouts "general_pl"
\* and "general_data" and of their check_column attribute. Past them: the
\* row after the last row with data of each section, the id cell, the P&L
\* cells (B), the data cells (G), the format and the borders.
write_to_general(sh, operation_id, date) ==
    LET pl_config == get_sheet_config("general_pl")
        data_config == get_sheet_config("general_data")
        inits == { Called(Begin(sh), "initialize", "client", w) : w \in initialize(sh) }
        runs == Then(inits, LAMBDA st0 :
            IF pl_config.raised # None THEN {[st0 EXCEPT !.raised = pl_config.raised]}
            ELSE IF data_config.raised # None THEN {[st0 EXCEPT !.raised = data_config.raised]}
            ELSE IF "check_column" \notin DOMAIN data_config.config
            THEN {[st0 EXCEPT !.raised = "AttributeError"]}
            ELSE UNION {
                LET last_data_row == get_last_data_row(sh, "general",
                                        data_config.config.check_column,
                                        data_config.config.start_row, read1)
                    last_pl_row == get_last_data_row(sh, "general",
                                        pl_config.config.check_column,
                                        pl_config.config.start_row, read2)
                IN  IF last_data_row.raised # None
                    THEN {[st0 EXCEPT !.raised = last_data_row.raised]}
                    ELSE IF last_pl_row.raised # None
                    THEN {[st0 EXCEPT !.raised = last_pl_row.raised]}
                    ELSE
                    LET new_data_row == IF last_data_row.row + 1 > data_config.config.start_row
                                        THEN last_data_row.row + 1
                                        ELSE data_config.config.start_row
                        new_pl_row == IF last_pl_row.row + 1 > pl_config.config.start_row
                                      THEN last_pl_row.row + 1
                                      ELSE pl_config.config.start_row
                        a == Then({st0}, LAMBDA st :
                                { Called(st, "update_cell", "A", w) :
                                    w \in update_cell(st.sheets, "general", new_data_row, "A",
                                                      operation_id) })
                        b == Then(a, LAMBDA st :
                                { Called(st, "update_range", "B:E", w) :
                                    w \in update_range_call(st.sheets, "general", new_pl_row,
                                                            [c \in {"B"} |-> date]) })
                        g == Then(b, LAMBDA st :
                                { Called(st, "update_range", "G:U", w) :
                                    w \in update_range_call(st.sheets, "general", new_data_row,
                                                            [c \in {"G"} |-> date]) })
                        f == Then(g, LAMBDA st :
                                { Called(st, "format_cells", "A", w) : w \in format_cells(st.sheets) })
                        e == Then(f, LAMBDA st :
                                { Called(st, "add_row_borders", "B:E", w) :
                                    w \in add_row_borders(st.sheets) })
                        u == Then(e, LAMBDA st :
                                { Called(st, "add_row_borders", "G:U", w) :
                                    w \in add_row_borders(st.sheets) })
                    IN  { [st EXCEPT !.ret = IF st.raised = None THEN new_data_row ELSE 0] :
                            st \in u }
                : read1 \in StoreOutcomes, read2 \in StoreOutcomes })
    IN  { Outcome(st.sheets, st.raised, IF st.raised = None THEN st.ret ELSE 0) : st \in runs }

\* The writes of confirm_order's try block with no write to the general ledger.
confirm_order_writes_three(sh, data) ==
    LET order_data == <<date_str, data.designer>>
        clients_data == <<date_str, data.client>>
        c0 == { Called(Begin(sh), "initialize", "client", w) : w \in initialize(sh) }
        c1 == Then(c0, LAMBDA st :
                { Called(st, "write_row", "designer_data", w) :
                    w \in write_row(st.sheets, "designer_data", OrderId, order_data, 0) })
        c2 == Then(c1, LAMBDA st :
                { Called(st, "update_sum_formula", "designer_data", w) :
                    w \in update_sum_formula(st.sheets, "designer_data", 4, "F") })
        c3 == Then(c2, LAMBDA st :
                { Called(st, "write_row", "clients_data", w) :
                    w \in write_row(st.sheets, "clients_data", OrderId, clients_data, 0) })
        c4 == Then(c3, LAMBDA st :
                { Called(st, "write_designer_to_pure_income", "pure_income", w) :
                    w \in write_designer_to_pure_income(st.sheets, OrderId, data.designer,
                                                        data.amount, data.agency_income) })
    IN  c4

\* The writes of confirm_order's try block, in order: initialize, the
\* designer order, the sum formula, the client ledger, the pure-income strip,
\* the general ledger. The first call that raises ends the block (the except
\* clause reports it; it undoes nothing).
confirm_order_writes(sh, data) ==
    Then(confirm_order_writes_three(sh, data), LAMBDA st :
        { Called(st, "write_to_general", "general", w) :
            w \in write_to_general(st.sheets, OrderId, date_str) })

WaitingForActualPayment == "DesignerOrderStates:waiting_for_actual_payment"
WaitingForConfirmation == "DesignerOrderStates:waiting_for_confirmation"

\* What a chat has entered when it is asked for the actual payment: the
\* model, the names, the amount and what enter_percent / enter_salary derived.
EnteredOrders ==
    { [model |-> "percent", designer |-> "d", client |-> "c", amount |-> 100,
       percent |-> 40, designer_salary |-> 40, agency_income |-> 60],
      [model |-> "percent", designer |-> "d", client |-> "c", amount |-> 200,
       percent |-> 50, designer_salary |-> 100, agency_income |-> 100],
      [model |-> "salary", designer |-> "d", client |-> "c", amount |-> 100,
       percent |-> 0, designer_salary |-> 30, agency_income |-> 70] }

\* The messages tried at the payment step: float() fails on the first, the
\* others are its values.
PaymentMessages ==
    { [number |-> FALSE], [number |-> TRUE, value |-> 0 - 5],
      [number |-> TRUE, value |-> 0], [number |-> TRUE, value |-> 50],
      [number |-> TRUE, value |-> 100], [number |-> TRUE, value |-> 150] }

\* The outcomes of a message sent to the chat (message.answer, edit_text).
Sends == {"delivered", "TelegramError"}

\* The keys enter_actual_payment reads for the debt alone.
KeysOfTheDebt == {"model", "amount"}

\* The keys enter_actual_payment reads with data[...] for the debt and for
\* the text of the confirmation.
ConfirmationKeys ==
    {"model", "designer", "client", "amount", "designer_salary", "agency_income"}

\* enter_actual_payment: the payment is stored first; a key that is missing
\* raises KeyError and a message that is not delivered raises as well, both
\* before set_state.
enter_actual_payment(messages) ==
    /\ fsm.state = WaitingForActualPayment
    /\ \E message \in messages, answer \in Sends :
          IF ~message.number \/ message.value < 0
          THEN /\ call' = [op |-> "enter_actual_payment", message |-> message, reply |-> "invalid"]
               /\ UNCHANGED fsm
          ELSE LET data == [k \in DOMAIN fsm.data \cup {"actual_payment"} |->
                              IF k = "actual_payment" THEN message.value
                              ELSE fsm.data[k]]
               IN  IF ~(ConfirmationKeys \subseteq DOMAIN data)
                   THEN /\ fsm' = [fsm EXCEPT !.data = data]
                        /\ call' = [op |-> "enter_actual_payment", message |-> message,
                                    reply |-> "KeyError"]
                   ELSE IF answer # "delivered"
                   THEN /\ fsm' = [fsm EXCEPT !.data = data]
                        /\ call' = [op |-> "enter_actual_payment", message |-> message,
                                    reply |-> answer]
                   ELSE /\ fsm' = [state |-> WaitingForConfirmation, data |-> data]
                        /\ call' = [op |-> "enter_actual_payment", message |-> message,
                                    reply |-> "confirm"]
    /\ UNCHANGED <<registry, sheets, tx, result, last, trace, sessions>>

EnterActualPayment == enter_actual_payment(PaymentMessages)

\* The confirm handlers. The model follows a dialogue to the end of its
\* first confirm step: a second press of the button, on the keyboard a
\* handler that did not clear the state leaves in place, is not taken.
ConfirmOps ==
    {"confirm_order", "confirm_pure_order", "payment_confirm", "expense_confirm",
     "pure_income_confirm"}

\* A message of the bot to the chat (callback.message.edit_text): it is
\* delivered, or the call raises.
EditText == {"delivered", "TelegramError"}

\* The try block of a confirm handler after the progress message that
\* precedes it: it is not entered when that message raises.
Tried(progress, runs, sh) ==
    IF progress = "delivered" THEN runs ELSE {[Begin(sh) EXCEPT !.raised = progress]}

\* The dialogue state a confirm handler leaves: state.clear() comes before
\* the message of success in the try block and after the report of the
\* error in the except clause, so it is not reached when the progress
\* message or the report raises.
state_after_confirm(progress, raised, report) ==
    IF progress = "delivered" /\ (raised = None \/ report = "delivered") THEN NoFsm
    ELSE fsm

\* The keys confirm_order reads with data[...] before its try block, for
\* the debt and for the row of the designer ledger.
OrderKeys == {"amount", "designer", "client"}

\* confirm_order: the reads of the session data (a missing key raises
\* KeyError out of the handler), the progress message, the try block, and
\* state.clear() on both of its ends.
ConfirmOrder ==
    /\ fsm.state = WaitingForConfirmation
    /\ call.op \notin ConfirmOps
    /\ IF ~(OrderKeys \subseteq DOMAIN fsm.data)
       THEN /\ call' = [op |-> "confirm_order", operation_id |-> OrderId,
                        raised |-> "KeyError"]
            /\ UNCHANGED <<sheets, trace, fsm>>
       ELSE
       \E progress \in EditText, report \in EditText :
       \E st \in Tried(progress, confirm_order_writes(sheets, fsm.data), sheets) :
          /\ sheets' = st.sheets
          /\ trace' = st.trace
          /\ call' = [op |-> "confirm_order", operation_id |-> OrderId,
                      raised |-> st.raised]
          /\ fsm' = state_after_confirm(progress, st.raised, report)
    /\ UNCHANGED <<registry, tx, result, last, sessions>>

InitOrder ==
    /\ registry = SHEETS_CONFIG
    /\ sheets \in InitialStores
    /\ call = NoCall
    /\ tx = NoTx
    /\ result = NoResult
    /\ last = NoLast
    /\ trace = <<>>
    /\ \E data \in EnteredOrders : fsm = [state |-> WaitingForActualPayment, data |-> data]
    /\ sessions = NoSessions

NextOrder == EnterActualPayment \/ ConfirmOrder

SpecOrder == InitOrder /\ [][NextOrder]_vars

\* ------------------------------------------- claims on the confirmation
\* The calls of the handler that write rows or cells of the ledgers.
WriteCallNames ==
    {"write_row", "update_sum_formula", "write_designer_to_pure_income", "write_to_general"}

\* A write of the last handler failed: it raised, or it returned False
\* (update_sum_formula is the one of them that returns a bool).
AWriteFailed ==
    \E n \in 1 .. Len(trace) :
        /\ trace[n].call \in WriteCallNames
        /\ \/ trace[n].raised # None
           \/ trace[n].call = "update_sum_formula" /\ trace[n].ret = FALSE

NoRowOf(operation_id) ==
    \A k \in DOMAIN sheets : \A r \in DOMAIN sheets[k] : sheets[k][r]["A"] # operation_id

SessionTables == {"designer_data", "clients_data"}

\* write_row from its call to its first await.
StartWriteRow(s) ==
    /\ sessions[s].pc = "idle"
    /\ \E sheet_key \in SessionTables :
       \E row_number \in {0, PastSkipRows(registry[sheet_key].start_row,
                                          registry[sheet_key].skip_rows)} :
          LET args == [sheet_key |-> sheet_key, operation_id |-> s,
                       row_number |-> row_number, store_failed |-> FALSE]
              col == col_to_check(None, registry[sheet_key])
          IN  sessions' = [sessions EXCEPT ![s] =
                  IF row_number # 0
                  THEN args @@ [pc |-> "writing", row |-> row_number]
                  ELSE IF col.raised # None
                  THEN args @@ [pc |-> "done", raised |-> col.raised, ret |-> 0]
                  ELSE args @@ [pc |-> "reading"]]
    /\ UNCHANGED <<registry, sheets, call, tx, result, last, trace, fsm>>

\* The store call a session awaits completes, and write_row runs to its next
\* await or to its end.
StepWriteRow(s) ==
    /\ sessions[s].pc \in {"reading", "writing", "formatting"}
    /\ \E outcome \in StoreOutcomes :
          LET me == sessions[s]
              failed == [me EXCEPT !.store_failed = TRUE]
          IN  CASE me.pc = "reading" ->
                    LET p == get_first_empty_row(sheets, me.sheet_key, None, outcome) IN
                    /\ sessions' = [sessions EXCEPT ![s] =
                          IF p.raised # None
                          THEN [k \in DOMAIN me \cup {"raised", "ret"} |->
                                  IF k = "pc" THEN "done" ELSE IF k = "raised" THEN p.raised
                                  ELSE IF k = "ret" THEN 0
                                  ELSE IF k = "store_failed" THEN TRUE ELSE me[k]]
                          ELSE [k \in DOMAIN me \cup {"row"} |->
                                  IF k = "pc" THEN "writing" ELSE IF k = "row" THEN p.row
                                  ELSE IF k = "store_failed"
                                       THEN me.store_failed \/ outcome # "ok"
                                  ELSE me[k]]]
                    /\ UNCHANGED sheets
                [] me.pc = "writing" ->
                    IF outcome = "ok"
                    THEN /\ sheets' = update_range(sheets, me.sheet_key, me.row,
                                          full_row(registry[me.sheet_key], me.operation_id,
                                                   RowData))
                         /\ sessions' = [sessions EXCEPT ![s].pc = "formatting"]
                    ELSE /\ sessions' = [sessions EXCEPT ![s] =
                              [k \in DOMAIN me \cup {"raised", "ret"} |->
                                  IF k = "pc" THEN "done" ELSE IF k = "raised" THEN outcome
                                  ELSE IF k = "ret" THEN 0
                                  ELSE IF k = "store_failed" THEN TRUE ELSE me[k]]]
                         /\ UNCHANGED sheets
                [] me.pc = "formatting" ->
                    /\ sessions' = [sessions EXCEPT ![s] =
                          [k \in DOMAIN me \cup {"raised", "ret"} |->
                              IF k = "pc" THEN "done"
                              ELSE IF k = "raised"
                                   THEN (IF outcome = "Error" THEN "Error" ELSE None)
                              ELSE IF k = "ret"
                                   THEN (IF outcome = "Error" THEN 0 ELSE me.row)
                              ELSE IF k = "store_failed"
                                   THEN me.store_failed \/ outcome # "ok"
                              ELSE me[k]]]
                    /\ UNCHANGED sheets
    /\ UNCHANGED <<registry, call, tx, result, last, trace, fsm>>

InitSessions ==
    /\ registry = SHEETS_CONFIG
    /\ sheets \in InitialStores
    /\ call = NoCall
    /\ tx = NoTx
    /\ result = NoResult
    /\ last = NoLast
    /\ trace = <<>>
    /\ fsm = NoFsm
    /\ sessions = NoSessions

NextSessions == \E s \in Sessions : StartWriteRow(s) \/ StepWriteRow(s)

SpecSessions == InitSessions /\ [][NextSessions]_vars

\* ------------------------------------------------- claims on the sessions
\* C8: when two sessions have run write_row on the same table, each leaving
\* the placement to write_row, and no store call of theirs failed, the two
\* operations were given rows, the rows are distinct, and each row carries
\* its own operation's id (neither overwrote the other's).
C8_SessionsGivenDistinctRows ==
    \A s, t \in Sessions :
        (/\ s # t
         /\ sessions[s].pc = "done" /\ sessions[t].pc = "done"
         /\ sessions[s].sheet_key = sessions[t].sheet_key
         /\ sessions[s].row_number = 0 /\ sessions[t].row_number = 0
         /\ ~sessions[s].store_failed /\ ~sessions[t].store_failed)
        => /\ sessions[s].raised = None /\ sessions[t].raised = None
           /\ sessions[s].ret # sessions[t].ret
           /\ sheets[sessions[s].sheet_key][sessions[s].ret]["A"] = s
           /\ sheets[sessions[t].sheet_key][sessions[t].ret]["A"] = t

\* ------------------------------------------------ direct calls on the client
\* A caller uses the row primitives of SheetsClient directly: write_row with
\* or without row_number, find_row_by_operation_id, delete_row_by_operation_id.
\* str(uuid.uuid4()) of the caller: an id no row of the store carries.
NewId == "new"

Fresh(operation_id) ==
    \A k \in DOMAIN sheets : \A r \in DOMAIN sheets[k] : sheets[k][r]["A"] # operation_id

\* The protected area (charts, B to E) also lies beside rows that hold no
\* data yet: the row after the first writable row carries chart content.
ChartRow(config) ==
    PastSkipRows(PastSkipRows(config.start_row, config.skip_rows) + 1, config.skip_rows)

WithChart(grid, config) ==
    [grid EXCEPT ![ChartRow(config)] = [@ EXCEPT !["B"] = "chart"]]

\* The tables the direct calls are made on: two layouts, one of them with
\* skip rows inside the grid and one with a single data column.
ClientTables == {"designer_data", "general"}

ClientStores ==
    { [k \in DOMAIN SHEETS_CONFIG |->
          WithChart(IF k \in taken THEN FirstRowTaken(SHEETS_CONFIG[k])
                    ELSE EmptyGrid(SHEETS_CONFIG[k]), SHEETS_CONFIG[k])]
      : taken \in SUBSET ClientTables }

\* write_row
WriteRow ==
    \E sheet_key \in ClientTables :
    \E row_number \in {0} \cup GridRows(registry[sheet_key]) :
        /\ Fresh(NewId)
        /\ \E w \in write_row(sheets, sheet_key, NewId, RowData, row_number) :
              /\ sheets' = w.sheets
              /\ call' = [op |-> "write_row", sheet_key |-> sheet_key,
                          operation_id |-> NewId, data |-> RowData,
                          row_number |-> row_number,
                          raised |-> w.raised, ret |-> w.ret, before |-> sheets]
        /\ UNCHANGED <<registry, tx, result, last, trace, fsm, sessions>>

\* find_row_by_operation_id
FindRow ==
    \E sheet_key \in ClientTables, operation_id \in {NewId, OtherId}, read \in StoreOutcomes :
        LET f == find_row_by_operation_id(sheets, sheet_key, operation_id, read) IN
        /\ call' = [op |-> "find_row_by_operation_id", sheet_key |-> sheet_key,
                    operation_id |-> operation_id, read |-> read,
                    raised |-> f.raised, ret |-> f.row, before |-> sheets]
        /\ UNCHANGED <<registry, sheets, tx, result, last, trace, fsm, sessions>>

\* delete_row_by_operation_id
DeleteRow ==
    \E sheet_key \in ClientTables, operation_id \in {NewId, OtherId} :
    \E read \in StoreOutcomes, clear \in StoreOutcomes :
        LET d == delete_row_under(sheets, sheet_key, operation_id, read, clear) IN
        /\ sheets' = d.sheets
        /\ call' = [op |-> "delete_row_by_operation_id", sheet_key |-> sheet_key,
                    operation_id |-> operation_id, read |-> read, clear |-> clear,
                    raised |-> d.raised, ret |-> d.ret, before |-> sheets]
        /\ UNCHANGED <<registry, tx, result, last, trace, fsm, sessions>>

InitClient ==
    /\ registry = SHEETS_CONFIG
    /\ sheets \in ClientStores
    /\ call = NoCall
    /\ tx = NoTx
    /\ result = NoResult
    /\ last = NoLast
    /\ trace = <<>>
    /\ fsm = NoFsm
    /\ sessions = NoSessions

NextClient == WriteRow \/ FindRow \/ DeleteRow

SpecClient == InitClient /\ [][NextClient]_vars

\* ------------------------------------------- claims on the row primitives
\* The cells write_row is specified to change: the identifier cell and the
\* cells of the data columns.
IdAndDataColumns(config) ==
    {config.id_column} \cup
    { c \in Columns : /\ ColIndex(config.data_start_col) <= ColIndex(c)
                      /\ ColIndex(c) <= ColIndex(config.data_end_col) }

\* The row the last write_row call was to write: the row asked for, else the
\* row it returned (0 when it was given none).
TargetRow == IF call.row_number # 0 THEN call.row_number ELSE call.ret

\* C12: write_row changes only the identifier cell and the data-column cells
\* of the target row: the protected cells of that row and all cells of every
\* other row hold after the call what they held before it.
C12_WriteRowFrame ==
    call.op = "write_row" =>
        \A k \in DOMAIN sheets : \A r \in DOMAIN sheets[k] : \A c \in Columns :
            (k # call.sheet_key \/ r # TargetRow \/ c \notin IdAndDataColumns(registry[k]))
                => sheets[k][r][c] = call.before[k][r][c]

\* Every cell outside the target row is left as it was.
WriteRowLeavesOtherRows ==
    call.op = "write_row" =>
        \A k \in DOMAIN sheets : \A r \in DOMAIN sheets[k] :
            (k # call.sheet_key \/ r # TargetRow) => sheets[k][r] = call.before[k][r]

\* What the store may raise in a call: the failures that are not the
\* program's own.
StoreFailures == {"HttpError", "Error"}

\* The data columns of row r of the table hold exactly the values written
\* (over the columns the model keeps).
DataColumnsHold(sheet_key, r, data) ==
    LET config == registry[sheet_key] IN
    \A c \in Columns :
        LET i == ColIndex(c) - ColIndex(config.data_start_col) + 1 IN
        i \in 1..Len(data) => sheets[sheet_key][r][c] = data[i]

\* What a later find_row_by_operation_id of the written id returns when its
\* read is answered.
FoundAfterwards ==
    find_row_by_operation_id(sheets, call.sheet_key, call.operation_id, "ok")

\* C13: after write_row(table, id, values), the store answering every call,
\* the call has returned a row r, find_row_by_operation_id(table, id) returns r
\* and the data columns of row r hold exactly the written values.
C13_WriteFindRoundTrip ==
    (call.op = "write_row" /\ call.row_number = 0 /\ call.raised \notin StoreFailures)
        => /\ call.raised = None
           /\ call.ret \in DOMAIN sheets[call.sheet_key]
           /\ FoundAfterwards = [raised |-> None, row |-> call.ret]
           /\ DataColumnsHold(call.sheet_key, call.ret, call.data)

\* With the row given by the caller and inside the window find scans, a
\* write_row that returned is found again at the row it returned, holding the
\* written values.
RoundTripWithExplicitRow ==
    (/\ call.op = "write_row"
     /\ call.row_number # 0
     /\ call.row_number <= registry[call.sheet_key].start_row + Window
     /\ call.raised = None)
        => /\ call.ret = call.row_number
           /\ FoundAfterwards = [raised |-> None, row |-> call.ret]
           /\ DataColumnsHold(call.sheet_key, call.ret, call.data)

\* The rows of the table, inside the window find_row_by_operation_id scans,
\* whose identifier cell holds the id.
Holders(sh, sheet_key, operation_id) ==
    { r \in DOMAIN sh[sheet_key] :
        /\ r <= registry[sheet_key].start_row + Window
        /\ sh[sheet_key][r]["A"] = operation_id }

\* The last call was a delete_row_by_operation_id whose store calls were
\* answered.
DeleteAnswered ==
    /\ call.op = "delete_row_by_operation_id"
    /\ call.read = "ok"
    /\ call.clear = "ok"

\* C14: delete_row_by_operation_id on an id present in the table returns True,
\* blanks the identifier and data cells of that row in place and changes no
\* other row (nothing is shifted); on an absent id it returns False, raises
\* nothing and leaves the store unchanged.
C14_DeleteBlanksInPlace ==
    DeleteAnswered =>
        LET held == Holders(call.before, call.sheet_key, call.operation_id) IN
        IF held = {}
        THEN /\ call.ret = FALSE
             /\ call.raised = None
             /\ sheets = call.before
        ELSE /\ call.ret = TRUE
             /\ call.raised = None
             /\ \A c \in IdAndDataColumns(registry[call.sheet_key]) :
                    sheets[call.sheet_key][Min(held)][c] = Empty
             /\ \A k \in DOMAIN sheets : \A r \in DOMAIN sheets[k] :
                    (k # call.sheet_key \/ r # Min(held)) => sheets[k][r] = call.before[k][r]

\* A row holding the id, with a row holding content below it, was deleted.
C14_Witness ==
    /\ DeleteAnswered
    /\ call.ret = TRUE
    /\ \E r \in Holders(call.before, call.sheet_key, call.operation_id) :
          \E below \in DOMAIN sheets[call.sheet_key] :
              /\ below > r
              /\ sheets[call.sheet_key][below] # EmptyRow

\* ---------------------------------------------------------- payment flow
\* The client ledger as the payment flow reads it: the range F:L of the
\* sheet of "clients_data" from start_row on, one order per row. The model
\* keeps A (operation id), F (date), G (client), H (status), I (order
\* amount), J (paid) and K (debt). The numeric cells hold numbers, as a read
\* with UNFORMATTED_VALUE returns them.

\* A date cell is kept as str(date).split("."): its parts, each of them the
\* digits of a number or some other text.
Part(n) == [digits |-> TRUE, n |-> n]
Word == [digits |-> FALSE, n |-> 0]
Date(d, mo, y) == <<Part(d), Part(mo), Part(y)>>

\* parse_date: (year, month, day) when the text has three parts and int()
\* accepts each of them, else (9999, 99, 99).
parse_date(order) ==
    LET parts == order.date IN
    IF Len(parts) = 3 /\ \A i \in 1..3 : parts[i].digits
    THEN <<parts[3].n, parts[2].n, parts[1].n>>
    ELSE <<9999, 99, 99>>

\* The order of Python tuples.
TupleLess(a, b) ==
    \/ a[1] < b[1]
    \/ a[1] = b[1] /\ a[2] < b[2]
    \/ a[1] = b[1] /\ a[2] = b[2] /\ a[3] < b[3]

\* orders.sort(key=parse_date): the sort is stable, an order stays behind
\* the orders before it in the sheet that have the same key.
RECURSIVE InsertByDate(_, _)
InsertByDate(order, sorted) ==
    IF sorted = <<>> THEN <<order>>
    ELSE IF TupleLess(parse_date(order), parse_date(Head(sorted)))
    THEN <<order>> \o sorted
    ELSE <<Head(sorted)>> \o InsertByDate(order, Tail(sorted))

\* The orders left in the order of their rows in the sheet.
InSheetOrder(orders) == orders

RECURSIVE SortByDate(_)
SortByDate(orders) ==
    IF orders = <<>> THEN <<>>
    ELSE InsertByDate(orders[Len(orders)], SortByDate(SubSeq(orders, 1, Len(orders) - 1)))

\* str.lower() on the names the model uses.
Lower(name) == IF name = "C" THEN "c" ELSE name

\* The rows read, in sheet order, that belong to the client, as order dicts.
RECURSIVE OrdersOf(_, _, _)
OrdersOf(grid, r, client_name) ==
    IF r \notin DOMAIN grid THEN <<>>
    ELSE LET row == grid[r]
             rest == OrdersOf(grid, r + 1, client_name)
         IN  IF Lower(row["G"]) # Lower(client_name) THEN rest
             ELSE <<[row |-> r, date |-> row["F"], client |-> row["G"],
                     status |-> row["H"], amount |-> row["I"],
                     paid |-> row["J"], debt |-> row["K"]]>> \o rest

\* get_client_orders_with_debt under one outcome of its read: [] when the
\* read raises HttpError.
get_client_orders_with_debt(sh, client_name, read) ==
    LET cfg == get_sheet_config("clients_data") IN
    IF cfg.raised # None THEN [raised |-> cfg.raised, orders |-> <<>>]
    ELSE IF read = "Error" THEN [raised |-> "Error", orders |-> <<>>]
    ELSE IF read = "HttpError" THEN [raised |-> None, orders |-> <<>>]
    ELSE [raised |-> None,
          orders |-> SortByDate(OrdersOf(sh["clients_data"], cfg.config.start_row,
                                         client_name))]

\* [o for o in orders if o["debt"] > 0]
RECURSIVE WithDebt(_)
WithDebt(orders) ==
    IF orders = <<>> THEN <<>>
    ELSE IF Head(orders).debt > 0 THEN <<Head(orders)>> \o WithDebt(Tail(orders))
    ELSE WithDebt(Tail(orders))

\* The whole of what remains, whatever the debt.
TakeRemaining(a, b) == a

Min2(a, b) == IF a <= b THEN a ELSE b

\* The record of one allocation.
Allocation(order, to_apply) ==
    [row |-> order.row, date |-> order.date, amount |-> order.amount,
     old_paid |-> order.paid, new_paid |-> order.paid + to_apply,
     applied |-> to_apply, remaining_debt |-> order.debt - to_apply]

\* The loop of distribute_payment_fifo over the orders left, from the run st
\* of the handler: remaining is decremented before update_cell is awaited,
\* and the allocation is recorded only when update_cell returned True.
RECURSIVE FifoLoop(_, _, _, _)
FifoLoop(st, todo, remaining, updates) ==
    IF todo = <<>> \/ remaining <= 0
    THEN {[sheets |-> st.sheets, trace |-> st.trace, raised |-> None, ret |-> updates]}
    ELSE LET order == Head(todo)
             to_apply == Min2(remaining, order.debt)
         IN  UNION {
                 LET after == Called(st, "update_cell", order.row, w) IN
                 IF w.raised # None THEN {[after EXCEPT !.ret = updates]}
                 ELSE FifoLoop(after, Tail(todo), remaining - to_apply,
                               IF w.ret THEN Append(updates, Allocation(order, to_apply))
                               ELSE updates)
                 : w \in update_cell(st.sheets, "clients_data", order.row, "J",
                                     order.paid + to_apply) }

\* distribute_payment_fifo from the run st, under one outcome of its read:
\* the runs it can end in, ret holding the list of updates it returns.
distribute_payment_fifo(st, client_name, payment_amount, read) ==
    LET got == get_client_orders_with_debt(st.sheets, client_name, read)
        after == Called(st, "get_client_orders_with_debt", client_name,
                        Outcome(st.sheets, got.raised, got.orders))
    IN  IF got.raised # None THEN {[after EXCEPT !.ret = <<>>]}
        ELSE FifoLoop(after, WithDebt(got.orders), payment_amount, <<>>)

\* A preview that shows every order of the dialogue as paid in full.
PreviewEveryOrder(todo, remaining, distribution) ==
    [distribution |-> [i \in 1 .. Len(todo) |-> Allocation(todo[i], todo[i].debt)],
     remaining |-> remaining]

\* The loop of payment_enter_amount over the orders kept in the dialogue:
\* the distribution shown for confirmation and what remains after it.
RECURSIVE PreviewLoop(_, _, _)
PreviewLoop(todo, remaining, distribution) ==
    IF todo = <<>> \/ remaining <= 0
    THEN [distribution |-> distribution, remaining |-> remaining]
    ELSE LET order == Head(todo)
             to_apply == Min2(remaining, order.debt)
         IN  PreviewLoop(Tail(todo), remaining - to_apply,
                         Append(distribution, Allocation(order, to_apply)))

\* sum(u[field] for u in updates)
RECURSIVE SumOf(_, _)
SumOf(records, field) ==
    IF records = <<>> THEN 0 ELSE Head(records)[field] + SumOf(Tail(records), field)

Max2(a, b) == IF a >= b THEN a ELSE b

\* confirm_order: "debt = data['amount'] - actual_payment", neither clamped
\* nor guarded.
order_debt(order_amount, actual_payment) == order_amount - actual_payment

\* The debt of write_to_general without its clamp and its guard.
debt_without_clamp(order_amount, actual_payment) ==
    order_debt(order_amount, actual_payment)

\* write_to_general:
\* "debt = max(0, order_amount - actual_payment) if order_amount > 0 else 0"
general_debt(order_amount, actual_payment) ==
    IF order_amount > 0 THEN Max2(0, order_amount - actual_payment) ELSE 0

\* write_to_general: "overpayment = max(0, actual_payment - order_amount)
\* if actual_payment > order_amount else 0"
general_overpayment(order_amount, actual_payment) ==
    IF actual_payment > order_amount THEN Max2(0, actual_payment - order_amount) ELSE 0

\* confirm_order, cell K of the client ledger: "debt if debt > 0 else 0"
client_debt(order_amount, actual_payment) ==
    LET d == order_debt(order_amount, actual_payment) IN IF d > 0 THEN d ELSE 0

\* The row confirm_order builds for the client ledger (clients_data): the
\* status and the debt are values computed from the amount and the payment
\* entered, written as they are.
client_row(operation_id, date, client, amount, actual_payment) ==
    [A |-> operation_id, F |-> date, G |-> client,
     H |-> IF order_debt(amount, actual_payment) > 0 THEN "Black List" ELSE "White List",
     I |-> amount, J |-> actual_payment,
     K |-> client_debt(amount, actual_payment)]

\* The orders of the ledgers: three debts of one client (100, 50 and 30,
\* oldest first), an order whose date does not parse, an order of another
\* client, and a settled order under another spelling of the client's name.
Order1 == client_row("o1", Date(1, 1, 2026), "c", 100, 0)
Order2 == client_row("o2", Date(2, 1, 2026), "c", 80, 30)
Order3 == client_row("o3", Date(3, 1, 2026), "c", 30, 0)
Order4 == client_row("o4", <<Word>>, "c", 40, 0)
Order5 == client_row("o5", Date(1, 1, 2026), "x", 60, 0)
Order6 == client_row("o6", Date(5, 12, 2025), "C", 20, 20)

\* The orders a ledger holds.
OrderBooks ==
    { {Order1, Order2, Order3}, {Order1, Order4, Order6}, {Order2, Order4, Order5} }

\* The ledgers the flow starts from: the orders of a book in any order of
\* rows, from the start row of the table on.
InitialLedgers ==
    UNION { LET rows == CLIENTS_DATA.start_row ..
                        (CLIENTS_DATA.start_row + Cardinality(book) - 1)
            IN  { grid \in [rows -> book] : \A r, q \in rows : grid[r] = grid[q] => r = q }
            : book \in OrderBooks }

PaymentWaitingForAmount == "PaymentStates:waiting_for_amount"
PaymentWaitingForConfirmation == "PaymentStates:waiting_for_confirmation"

\* The names a client is selected by, one of them in no row.
ClientNames == {"c", "C", "x", "nobody"}

\* The texts tried at the amount step: float() fails on the first, the
\* others are its values.
AmountMessages ==
    { [number |-> FALSE], [number |-> TRUE, value |-> 0],
      [number |-> TRUE, value |-> 30], [number |-> TRUE, value |-> 120],
      [number |-> TRUE, value |-> 200] }

\* Payments are taken while the ledger holds no more than this as paid.
MaxPaid == 80

\* The sum of the paid column over the rows of the ledger from row r on.
RECURSIVE PaidInAll(_, _)
PaidInAll(grid, r) ==
    IF r \notin DOMAIN grid THEN 0 ELSE grid[r]["J"] + PaidInAll(grid, r + 1)

\* process_client_selection, reached from the client list or from the name
\* typed in.
ProcessClientSelection ==
    /\ fsm.state = None
    /\ PaidInAll(sheets["clients_data"], CLIENTS_DATA.start_row) <= MaxPaid
    /\ \E client \in ClientNames, init \in initialize(sheets), read \in StoreOutcomes :
          LET got == get_client_orders_with_debt(sheets, client, read)
              orders == got.orders
              total_debt == SumOf(orders, "debt")
          IN  /\ trace' = IF init.raised # None
                          THEN Called(Begin(sheets), "initialize", "service", init).trace
                          ELSE Called(Called(Begin(sheets), "initialize", "service", init),
                                      "get_client_orders_with_debt", client,
                                      Outcome(sheets, got.raised, got.orders)).trace
              /\ IF init.raised # None \/ got.raised # None
                 THEN /\ call' = [op |-> "process_client_selection", client |-> client,
                                  reply |-> "error"]
                      /\ UNCHANGED fsm
                 ELSE IF orders = <<>>
                 THEN /\ call' = [op |-> "process_client_selection", client |-> client,
                                  reply |-> "not found"]
                      /\ UNCHANGED fsm
                 ELSE IF total_debt <= 0
                 THEN /\ call' = [op |-> "process_client_selection", client |-> client,
                                  reply |-> "no debt"]
                      /\ fsm' = NoFsm
                 ELSE /\ call' = [op |-> "process_client_selection", client |-> client,
                                  reply |-> "enter amount"]
                      /\ fsm' = [state |-> PaymentWaitingForAmount,
                                 data |-> [client |-> client, orders |-> orders,
                                           total_debt |-> total_debt]]
    /\ UNCHANGED <<registry, sheets, tx, result, last, sessions>>

\* payment_enter_amount
PaymentEnterAmount ==
    /\ fsm.state = PaymentWaitingForAmount
    /\ \E message \in AmountMessages :
          IF ~message.number \/ message.value <= 0
          THEN /\ call' = [op |-> "payment_enter_amount", reply |-> "invalid"]
               /\ UNCHANGED fsm
          ELSE LET preview == PreviewLoop(WithDebt(fsm.data.orders), message.value, <<>>) IN
               /\ fsm' = [state |-> PaymentWaitingForConfirmation,
                          data |-> [client |-> fsm.data.client,
                                    orders |-> fsm.data.orders,
                                    total_debt |-> fsm.data.total_debt,
                                    payment_amount |-> message.value,
                                    distribution |-> preview.distribution,
                                    remaining_after |-> preview.remaining]]
               /\ call' = [op |-> "payment_enter_amount", reply |-> "confirm",
                           orders |-> WithDebt(fsm.data.orders),
                           payment_amount |-> message.value,
                           distribution |-> preview.distribution,
                           remaining |-> preview.remaining]
    /\ trace' = <<>>
    /\ UNCHANGED <<registry, sheets, tx, result, last, sessions>>

\* payment_confirm: the progress message, the try block with the message of
\* its result, the report of the except clause, then state.clear(), which
\* is not reached when the progress message or the report raises.
PaymentConfirm ==
    /\ fsm.state = PaymentWaitingForConfirmation
    /\ call.op \notin ConfirmOps
    /\ \E read \in StoreOutcomes, progress \in EditText, answer \in EditText,
          report \in EditText :
       \E st \in Tried(progress,
                       Then({ Called(Begin(sheets), "initialize", "service", w) :
                                w \in initialize(sheets) },
                            LAMBDA s : distribute_payment_fifo(s, fsm.data.client,
                                                               fsm.data.payment_amount,
                                                               read)),
                       sheets) :
          LET updates == IF st.raised = None THEN st.ret ELSE <<>>
              total_applied == SumOf(updates, "applied")
          IN  /\ sheets' = st.sheets
              /\ trace' = st.trace
              /\ call' = [op |-> "payment_confirm", client |-> fsm.data.client,
                          payment_amount |-> fsm.data.payment_amount,
                          read |-> read, raised |-> st.raised,
                          reply |-> IF st.raised # None THEN "error"
                                    ELSE IF updates = <<>> THEN "not applied"
                                    ELSE "applied",
                          updates |-> updates,
                          total_applied |-> total_applied,
                          remaining |-> fsm.data.payment_amount - total_applied,
                          before |-> sheets,
                          distribution |-> fsm.data.distribution,
                          interleaved |-> IF call.op = "other_session_payment"
                                          THEN call.updates ELSE <<>>]
              /\ fsm' = IF /\ progress = "delivered"
                           /\ \/ st.raised = None /\ answer = "delivered"
                              \/ report = "delivered"
                        THEN NoFsm ELSE fsm
    /\ UNCHANGED <<registry, tx, result, last, sessions>>

\* A cell of the general ledger that holds a number or nothing: its writer
\* puts "" for a value that is zero ("x if x else ''"), a reader takes ""
\* as 0.
Num(n) == [empty |-> FALSE, n |-> n]
Blank == [empty |-> TRUE, n |-> 0]
ValueOf(cell) == IF cell.empty THEN 0 ELSE cell.n

\* The cells write_to_general builds for a designer order, those of the
\* order's amounts: J (order amount), K (actual payment), L (debt) and
\* M (overpayment), with the operation id in A.
general_row(operation_id, order_amount, actual_payment) ==
    [A |-> operation_id,
     J |-> IF order_amount # 0 THEN Num(order_amount) ELSE Blank,
     K |-> IF actual_payment # 0 THEN Num(actual_payment) ELSE Blank,
     L |-> IF general_debt(order_amount, actual_payment) > 0
           THEN Num(general_debt(order_amount, actual_payment)) ELSE Blank,
     M |-> Num(general_overpayment(order_amount, actual_payment))]

\* The general ledger of the orders of a client ledger as it was when the
\* orders were entered: one row per order, in the same order.
GeneralOf(grid) ==
    [r \in { GENERAL.start_row + (q - CLIENTS_DATA.start_row) : q \in DOMAIN grid } |->
        LET row == grid[CLIENTS_DATA.start_row + (r - GENERAL.start_row)]
        IN  general_row(row["A"], row["I"], row["J"])]

InitPayment ==
    /\ registry = SHEETS_CONFIG
    /\ sheets \in { [k \in {"clients_data", "general"} |->
                         IF k = "clients_data" THEN grid ELSE GeneralOf(grid)]
                     : grid \in InitialLedgers }
    /\ call = NoCall
    /\ tx = NoTx
    /\ result = NoResult
    /\ last = NoLast
    /\ trace = <<>>
    /\ fsm = NoFsm
    /\ sessions = NoSessions

NextPayment == ProcessClientSelection \/ PaymentEnterAmount \/ PaymentConfirm

SpecPayment == InitPayment /\ [][NextPayment]_vars

\* ------------------------------------------------- claims on the payments
\* The last handler was payment_confirm and the store answered every call it
\* made: the read of the ledger and every update_cell.
PaymentAnswered ==
    /\ call.op = "payment_confirm"
    /\ call.read = "ok"
    /\ call.raised = None
    /\ \A i \in DOMAIN trace :
          /\ trace[i].raised = None
          /\ trace[i].call = "update_cell" => trace[i].ret = TRUE

\* The rows of the client's orders in the ledger the payment started from.
ClientRows ==
    { r \in DOMAIN call.before["clients_data"] :
        Lower(call.before["clients_data"][r]["G"]) = Lower(call.client) }

\* The date key of a ledger row: unparseable dates are last.
DateKey(r) == parse_date([date |-> call.before["clients_data"][r]["F"]])

DebtBefore(r) == call.before["clients_data"][r]["K"]

\* What the allocations before the i-th left of the payment.
RemainingAt(i) == call.payment_amount - SumOf(SubSeq(call.updates, 1, i - 1), "applied")

\* C15: the payment is walked over the client's orders oldest first
\* (unparseable dates last); each order with debt is given min(remaining
\* payment, its debt), so none is given more than its debt, and an order is
\* given a positive amount only if every older order with debt was cleared in
\* full.
C15_FifoSettlement ==
    PaymentAnswered =>
        /\ \A i \in DOMAIN call.updates :
              LET u == call.updates[i] IN
              /\ u.row \in ClientRows
              /\ DebtBefore(u.row) > 0
              /\ u.applied = Min2(RemainingAt(i), DebtBefore(u.row))
              /\ u.applied > 0
              /\ u.applied <= DebtBefore(u.row)
              /\ \A q \in ClientRows :
                    (DebtBefore(q) > 0 /\ TupleLess(DateKey(q), DateKey(u.row)))
                        => \E j \in 1..(i - 1) :
                              /\ call.updates[j].row = q
                              /\ call.updates[j].applied = DebtBefore(q)
                              /\ call.updates[j].remaining_debt = 0
        /\ \A q \in ClientRows :
              (DebtBefore(q) > 0 /\ \A i \in DOMAIN call.updates : call.updates[i].row # q)
                  => SumOf(call.updates, "applied") = call.payment_amount

\* A payment that cleared an order and part of a newer one that stands
\* above it in the sheet.
C15_Witness ==
    /\ PaymentAnswered
    /\ Len(call.updates) >= 2
    /\ call.updates[1].row > call.updates[2].row
    /\ call.updates[1].remaining_debt = 0
    /\ call.updates[2].remaining_debt > 0

\* What the ledger holds more as paid than before the payment.
Persisted ==
    PaidInAll(sheets["clients_data"], CLIENTS_DATA.start_row)
        - PaidInAll(call.before["clients_data"], CLIENTS_DATA.start_row)

\* The leftover the reply shows as overpayment ("if remaining > 0").
ReportedLeftover == IF call.remaining > 0 THEN call.remaining ELSE 0

\* What is left of the debt the order of row r had, after what the payment
\* added to its paid cell.
DebtLeft(r) ==
    DebtBefore(r) - (sheets["clients_data"][r]["J"] - call.before["clients_data"][r]["J"])

\* The payment conserved: what it added to the ledger and the leftover
\* reported make up the payment, and a leftover is reported only with every
\* debt of the client cleared.
Conserved ==
    /\ Persisted + ReportedLeftover = call.payment_amount
    /\ ReportedLeftover > 0 => \A r \in ClientRows : DebtLeft(r) <= 0

\* C16: for every payment reported as applied, the amounts persisted to the
\* ledger plus the leftover reported to the user equal the payment amount,
\* and a positive leftover is reported only when every debt of the client has
\* been cleared.
C16_PaymentConserved ==
    (call.op = "payment_confirm" /\ call.reply = "applied") => Conserved

\* The same for the payments during which the store answered every call.
ConservedWhenAnswered ==
    PaymentAnswered => call.reply = "applied" /\ Conserved

\* [o["debt"] for o in orders]
RECURSIVE DebtsOf(_)
DebtsOf(orders) ==
    IF orders = <<>> THEN <<>> ELSE <<Head(orders).debt>> \o DebtsOf(Tail(orders))

\* The allocation records as (applied, remaining debt) pairs.
RECURSIVE AppliedAndRemaining(_)
AppliedAndRemaining(records) ==
    IF records = <<>> THEN <<>>
    ELSE <<<<Head(records).applied, Head(records).remaining_debt>>>>
             \o AppliedAndRemaining(Tail(records))

\* The last handler allocated a payment over the debts 100, 50 and 30 (oldest
\* first): the preview of payment_enter_amount, or payment_confirm with the
\* store answering.
AllocatedOverThreeDebts ==
    \/ /\ call.op = "payment_enter_amount"
       /\ call.reply = "confirm"
       /\ DebtsOf(call.orders) = <<100, 50, 30>>
    \/ /\ PaymentAnswered
       /\ DebtsOf(WithDebt(get_client_orders_with_debt(call.before, call.client,
                                                        "ok").orders)) = <<100, 50, 30>>

\* The allocation records of the last handler.
Allocations ==
    IF call.op = "payment_enter_amount" THEN call.distribution ELSE call.updates

\* C17: over the debts 100, 50 and 30 a payment of 120 gives two allocation
\* records, (applied 100, remaining 0) and (applied 20, remaining 30), and
\* leftover 0, the third order getting no record because the walk stops when
\* the payment is exhausted; a payment of 200 clears all three (180 applied)
\* and leaves 20.
C17_AllocationExample ==
    AllocatedOverThreeDebts =>
        /\ call.payment_amount = 120 =>
              /\ AppliedAndRemaining(Allocations) = << <<100, 0>>, <<20, 30>> >>
              /\ call.remaining = 0
        /\ call.payment_amount = 200 =>
              /\ AppliedAndRemaining(Allocations) = << <<100, 0>>, <<50, 0>>, <<30, 0>> >>
              /\ SumOf(Allocations, "applied") = 180
              /\ call.remaining = 20

\* The statement with a third record (applied 0, remaining 30) for the
\* payment of 120.
C17_ThreeRecordsFor120 ==
    AllocatedOverThreeDebts =>
        /\ call.payment_amount = 120 =>
              /\ AppliedAndRemaining(Allocations) = << <<100, 0>>, <<20, 30>>, <<0, 30>> >>
              /\ call.remaining = 0
        /\ call.payment_amount = 200 =>
              /\ SumOf(Allocations, "applied") = 180
              /\ \A i \in DOMAIN Allocations : Allocations[i].remaining_debt = 0
              /\ call.remaining = 20

\* payment_confirm has applied the payment of 120 over the three debts.
C17_Witness ==
    /\ PaymentAnswered
    /\ AllocatedOverThreeDebts
    /\ call.payment_amount = 120
    /\ sheets["clients_data"] # call.before["clients_data"]

\* ------------------------------------------------- debt and overpayment
\* The amounts of an order as the two writers compute them. Amounts are
\* whole numbers of dollars from 0 to MaxAmount.
MaxAmount == 10
Amounts == 0..MaxAmount

\* The amounts computed for one order, by confirm_order for the client
\* ledger and by write_to_general for the general ledger.
ComputeAmounts ==
    /\ \E order_amount \in Amounts, actual_payment \in Amounts :
          call' = [op |-> "amounts", order_amount |-> order_amount,
                   actual_payment |-> actual_payment,
                   client_debt |-> client_debt(order_amount, actual_payment),
                   debt |-> general_debt(order_amount, actual_payment),
                   overpayment |-> general_overpayment(order_amount, actual_payment)]
    /\ UNCHANGED <<registry, sheets, tx, result, last, trace, fsm, sessions>>

InitAmounts ==
    /\ registry = SHEETS_CONFIG
    /\ sheets = [k \in DOMAIN SHEETS_CONFIG |-> EmptyGrid(SHEETS_CONFIG[k])]
    /\ call = NoCall
    /\ tx = NoTx
    /\ result = NoResult
    /\ last = NoLast
    /\ trace = <<>>
    /\ fsm = NoFsm
    /\ sessions = NoSessions

NextAmounts == ComputeAmounts

SpecAmounts == InitAmounts /\ [][NextAmounts]_vars

\* C20: for all order amounts and payments >= 0 the debt is
\* max(0, amount - payment), the overpayment is max(0, payment - amount), and
\* the two are never both positive.
C20_DebtXorOverpayment ==
    call.op = "amounts" =>
        /\ call.debt = Max2(0, call.order_amount - call.actual_payment)
        /\ call.client_debt = Max2(0, call.order_amount - call.actual_payment)
        /\ call.overpayment = Max2(0, call.actual_payment - call.order_amount)
        /\ ~(call.debt > 0 /\ call.overpayment > 0)
        /\ ~(call.client_debt > 0 /\ call.overpayment > 0)

\* An order paid beyond its amount: no debt, an overpayment.
C20_Witness ==
    /\ call.op = "amounts"
    /\ call.order_amount > 0
    /\ call.actual_payment > call.order_amount
    /\ call.overpayment > 0
    /\ call.debt = 0

Scale == 1000
Mul(a, b) == (a * b) \div Scale
Div(a, b) == (a * Scale) \div b
Hundred == 100 * Scale

WaitingForAmount == "DesignerOrderStates:waiting_for_amount"
WaitingForPercent == "DesignerOrderStates:waiting_for_percent"
WaitingForSalary == "DesignerOrderStates:waiting_for_salary"

\* The messages tried at a numeric step: float() fails on the first, the
\* others are its values (in units of 1/Scale).
Numbers(values) == {[number |-> FALSE]} \cup {[number |-> TRUE, value |-> v] : v \in values}
EntryAmounts == Numbers({0 - 10000, 0, 10000, 20000})
EntryPercents == Numbers({0 - 1000, 0, 400, 1000, 40000, 100000, 150000})
EntrySalaries == Numbers({0 - 1000, 0, 3000, 10000, 15000, 25000})

\* state.update_data(**values)
update_data(data, values) ==
    [k \in DOMAIN data \cup DOMAIN values |-> IF k \in DOMAIN values THEN values[k] ELSE data[k]]

\* enter_amount: the amount is stored, then data["model"] is read and the
\* next question is sent, both before set_state.
enter_amount(messages) ==
    /\ fsm.state = WaitingForAmount
    /\ \E message \in messages, answer \in Sends :
          IF ~message.number \/ message.value <= 0
          THEN /\ call' = [op |-> "enter_amount", message |-> message, reply |-> "invalid"]
               /\ UNCHANGED fsm
          ELSE LET data == update_data(fsm.data, [amount |-> message.value]) IN
               IF "model" \notin DOMAIN data
               THEN /\ fsm' = [fsm EXCEPT !.data = data]
                    /\ call' = [op |-> "enter_amount", message |-> message, reply |-> "KeyError"]
               ELSE IF answer # "delivered"
               THEN /\ fsm' = [fsm EXCEPT !.data = data]
                    /\ call' = [op |-> "enter_amount", message |-> message, reply |-> answer]
               ELSE /\ fsm' = [state |-> IF data.model = "percent" THEN WaitingForPercent
                                         ELSE WaitingForSalary,
                               data |-> data]
                    /\ call' = [op |-> "enter_amount", message |-> message, reply |-> "next"]
    /\ UNCHANGED <<registry, sheets, tx, result, last, trace, sessions>>

EnterAmount == enter_amount(EntryAmounts)

\* The earnings enter_percent computes: amount * (percent / 100).
percent_earnings(amount, percent) == Mul(amount, Div(percent, Hundred))
double_share(amount, designer_salary) == amount - 2 * designer_salary
\* The agency's share, as both entry handlers compute it.
agency_income_of(amount, designer_salary) == amount - designer_salary

\* enter_percent: the percent is stored, data["amount"] is read, the
\* earnings are stored and the next question is sent, then set_state.
enter_percent(messages) ==
    /\ fsm.state = WaitingForPercent
    /\ \E message \in messages, answer \in Sends :
          IF ~message.number \/ message.value < 0 \/ message.value > Hundred
          THEN /\ call' = [op |-> "enter_percent", message |-> message, reply |-> "invalid"]
               /\ UNCHANGED fsm
          ELSE IF "amount" \notin DOMAIN fsm.data
          THEN /\ fsm' = [fsm EXCEPT !.data = update_data(fsm.data,
                                                          [percent |-> message.value])]
               /\ call' = [op |-> "enter_percent", message |-> message, reply |-> "KeyError"]
          ELSE LET designer_salary == percent_earnings(fsm.data.amount, message.value)
                   agency_income == agency_income_of(fsm.data.amount, designer_salary)
                   data == update_data(fsm.data,
                                       [percent |-> message.value,
                                        designer_salary |-> designer_salary,
                                        agency_income |-> agency_income])
               IN  IF answer # "delivered"
                   THEN /\ fsm' = [fsm EXCEPT !.data = data]
                        /\ call' = [op |-> "enter_percent", message |-> message,
                                    reply |-> answer]
                   ELSE /\ fsm' = [state |-> WaitingForActualPayment, data |-> data]
                        /\ call' = [op |-> "enter_percent", message |-> message,
                                    reply |-> "next"]
    /\ UNCHANGED <<registry, sheets, tx, result, last, trace, sessions>>

EnterPercent == enter_percent(EntryPercents)

salary_never_above(salary, amount) == FALSE
\* The salary check of enter_salary.
salary_refused(salary, amount) == salary > amount

\* enter_salary: data["amount"] is read for the check, the earnings are
\* stored and the next question is sent, then set_state.
enter_salary(messages) ==
    /\ fsm.state = WaitingForSalary
    /\ \E message \in messages, answer \in Sends :
          IF ~message.number \/ message.value < 0
          THEN /\ call' = [op |-> "enter_salary", message |-> message, reply |-> "invalid"]
               /\ UNCHANGED fsm
          ELSE IF "amount" \notin DOMAIN fsm.data
          THEN /\ call' = [op |-> "enter_salary", message |-> message, reply |-> "KeyError"]
               /\ UNCHANGED fsm
          ELSE IF salary_refused(message.value, fsm.data.amount)
          THEN /\ call' = [op |-> "enter_salary", message |-> message, reply |-> "above amount"]
               /\ UNCHANGED fsm
          ELSE LET data == update_data(fsm.data,
                                       [designer_salary |-> message.value,
                                        agency_income |->
                                            agency_income_of(fsm.data.amount, message.value),
                                        percent |-> 0])
               IN  IF answer # "delivered"
                   THEN /\ fsm' = [fsm EXCEPT !.data = data]
                        /\ call' = [op |-> "enter_salary", message |-> message,
                                    reply |-> answer]
                   ELSE /\ fsm' = [state |-> WaitingForActualPayment, data |-> data]
                        /\ call' = [op |-> "enter_salary", message |-> message,
                                    reply |-> "next"]
    /\ UNCHANGED <<registry, sheets, tx, result, last, trace, sessions>>

EnterSalary == enter_salary(EntrySalaries)

InitEntry ==
    /\ registry = SHEETS_CONFIG
    /\ sheets \in InitialStores
    /\ call = NoCall
    /\ tx = NoTx
    /\ result = NoResult
    /\ last = NoLast
    /\ trace = <<>>
    /\ \E model \in {"percent", "salary"} :
          fsm = [state |-> WaitingForAmount,
                 data |-> [model |-> model, designer |-> "d", client |-> "c"]]
    /\ sessions = NoSessions

NextEntry == EnterAmount \/ EnterPercent \/ EnterSalary \/ EnterActualPayment

SpecEntry == InitEntry /\ [][NextEntry]_vars

\* ------------------------------------------ the designers' earnings read
\* A cell as the aggregations read it: a number, an empty cell, or a text
\* float() rejects.
NumberCell(n) == [kind |-> "number", n |-> n]
EmptyCell == [kind |-> "empty", n |-> 0]
TextCell == [kind |-> "text", n |-> 0]

\* float(cell) if cell else 0
float_or_zero(cell) ==
    IF cell.kind = "text" THEN [raised |-> "ValueError", value |-> 0]
    ELSE [raised |-> None, value |-> cell.n]

\* The earnings get_designers_with_earnings derives from the amount, percent
\* and salary of one row.
earnings_of(amount, percent, salary) ==
    IF salary > 0 THEN salary
    ELSE IF percent > 0 /\ amount > 0
    THEN IF percent < Scale THEN Mul(amount, percent)
         ELSE Div(Mul(amount, percent), Hundred)
    ELSE 0

\* order_data of confirm_order, the row of the designers' ledger, as the
\* cells the sheet returns for it.
designer_order_data(data) ==
    [F |-> date_str, G |-> data.designer, H |-> data.client,
     I |-> NumberCell(data.amount), J |-> NumberCell(data.percent),
     K |-> NumberCell(IF data.model = "percent" THEN 0 ELSE data.designer_salary)]

\* The earnings the aggregation derives from a row of the ledger.
row_earnings(row) ==
    earnings_of(float_or_zero(row["I"]).value, float_or_zero(row["J"]).value,
                float_or_zero(row["K"]).value)

\* The percent as a fraction: p / 100 when p > 1, else p.
Normalized(p) == IF p > Scale THEN Div(p, Hundred) ELSE p

\* An order of the percent model has passed the percent step.
PercentEntered == fsm.state = WaitingForActualPayment /\ fsm.data.model = "percent"

\* C21: under the percent model the earnings computed at entry are
\* amount * p/100 when p > 1 and amount * p when p <= 1, and they equal the
\* earnings the designers aggregation derives from the row that is stored
\* for the order.
C21_PercentNormalized ==
    PercentEntered =>
        /\ fsm.data.designer_salary = Mul(fsm.data.amount, Normalized(fsm.data.percent))
        /\ row_earnings(designer_order_data(fsm.data)) = fsm.data.designer_salary

\* What does hold: for a percent above 1 the value at entry is amount * p/100
\* and the aggregation derives the same value from the stored row.
EntryAgreesAboveOne ==
    (PercentEntered /\ fsm.data.percent > Scale) =>
        /\ fsm.data.designer_salary = Mul(fsm.data.amount, Normalized(fsm.data.percent))
        /\ row_earnings(designer_order_data(fsm.data)) = fsm.data.designer_salary


\* The order has passed the percent or the salary step.
SharesEntered == fsm.state \in {WaitingForActualPayment, WaitingForConfirmation}

SharesAtTheEnds ==
    /\ (PercentEntered /\ fsm.data.percent = Hundred) => fsm.data.agency_income = 0
    /\ (PercentEntered /\ fsm.data.percent = 0) => fsm.data.designer_salary = 0


\* The handlers of the numeric steps of the entry dialogue.
EntrySteps == {"enter_amount", "enter_percent", "enter_salary", "enter_actual_payment"}

\* The message is not a value the step takes: not a number, or a number out
\* of the step's range (an amount not above 0, a percent outside [0, 100], a
\* salary below 0 or above the order amount, a payment below 0).
OutOfRange(op, message, data) ==
    \/ ~message.number
    \/ op = "enter_amount" /\ message.value <= 0
    \/ op = "enter_percent" /\ (message.value < 0 \/ message.value > Hundred)
    \/ op = "enter_salary" /\ (message.value < 0 \/ message.value > data.amount)
    \/ op = "enter_actual_payment" /\ message.value < 0

ValidInputAccepted ==
    [][(/\ call'.op \in EntrySteps
        /\ ~OutOfRange(call'.op, call'.message, fsm.data)
        /\ call'.reply # "TelegramError")
          => fsm'.state # fsm.state]_vars


\* ------------------------------------------------------- the aggregations
\* datetime.now(), as (year, month, day).
Today == <<2026, 11, 6>>

\* A limit of a date range: None, or a day.
NoLimit == [none |-> TRUE, at |-> <<0, 0, 0>>]
Limit(day) == [none |-> FALSE, at |-> day]

\* get_period_dates for the periods "all" and "month".
Periods ==
    { [start_date |-> NoLimit, end_date |-> NoLimit],
      [start_date |-> Limit(<<Today[1], Today[2], 1>>), end_date |-> Limit(Today)] }

\* SheetsClient.parse_date: DD.MM.YYYY, else DD.MM of the current year, else
\* None.
SheetsClient_parse_date(date) ==
    IF Len(date) = 3 /\ \A i \in 1..3 : date[i].digits
    THEN [none |-> FALSE, at |-> <<date[3].n, date[2].n, date[1].n>>]
    ELSE IF Len(date) = 2 /\ \A i \in 1..2 : date[i].digits
    THEN [none |-> FALSE, at |-> <<Today[1], date[2].n, date[1].n>>]
    ELSE NoLimit

\* is_date_in_range
is_date_in_range(date, start_date, end_date) ==
    IF start_date.none /\ end_date.none THEN TRUE
    ELSE LET parsed_date == SheetsClient_parse_date(date) IN
         IF parsed_date.none THEN FALSE
         ELSE IF ~start_date.none /\ TupleLess(parsed_date.at, start_date.at) THEN FALSE
         ELSE IF ~end_date.none /\ TupleLess(end_date.at, parsed_date.at) THEN FALSE
         ELSE TRUE

\* The entries left in the order the dict holds them.
InDictOrder(entries, field) == entries

\* result.sort(key=lambda x: x[field], reverse=True): the sort is stable.
RECURSIVE InsertDescending(_, _, _)
InsertDescending(entry, sorted, field) ==
    IF sorted = <<>> THEN <<entry>>
    ELSE IF Head(sorted)[field] > entry[field]
    THEN <<Head(sorted)>> \o InsertDescending(entry, Tail(sorted), field)
    ELSE <<entry>> \o sorted

RECURSIVE SortDescending(_, _)
SortDescending(entries, field) ==
    IF entries = <<>> THEN <<>>
    ELSE InsertDescending(Head(entries), SortDescending(Tail(entries), field), field)

\* The place of the name's entry in the dict, 0 when it has none.
EntryOf(entries, key, name) ==
    LET at == { i \in 1 .. Len(entries) : entries[i][key] = name }
    IN  IF at = {} THEN 0 ELSE CHOOSE i \in at : TRUE

\* The loop of get_designers_with_earnings over the rows read, from row r
\* on, with the dict built so far.
RECURSIVE DesignersLoop(_, _, _, _, _)
DesignersLoop(grid, r, start_date, end_date, entries) ==
    IF r \notin DOMAIN grid THEN entries
    ELSE LET row == grid[r]
             amount == float_or_zero(row["I"])
             percent == float_or_zero(row["J"])
             salary == float_or_zero(row["K"])
             earnings == earnings_of(amount.value, percent.value, salary.value)
             at == EntryOf(entries, "designer", row["G"])
             old == IF at = 0
                    THEN [designer |-> row["G"], orders_count |-> 0,
                          total_amount |-> 0, total_earnings |-> 0]
                    ELSE entries[at]
             new == [designer |-> row["G"], orders_count |-> old.orders_count + 1,
                     total_amount |-> old.total_amount + amount.value,
                     total_earnings |-> old.total_earnings + earnings]
         IN  IF \/ row["G"] = Empty
                \/ ~is_date_in_range(row["F"], start_date, end_date)
                \/ amount.raised # None \/ percent.raised # None \/ salary.raised # None
             THEN DesignersLoop(grid, r + 1, start_date, end_date, entries)
             ELSE DesignersLoop(grid, r + 1, start_date, end_date,
                                IF at = 0 THEN Append(entries, new)
                                ELSE [entries EXCEPT ![at] = new])

\* get_designers_with_earnings under one outcome of its read.
get_designers_with_earnings(sh, start_date, end_date, read) ==
    LET cfg == get_sheet_config("designer_data") IN
    IF cfg.raised # None THEN [raised |-> cfg.raised, ret |-> <<>>]
    ELSE IF read = "Error" THEN [raised |-> "Error", ret |-> <<>>]
    ELSE IF read = "HttpError" THEN [raised |-> None, ret |-> <<>>]
    ELSE [raised |-> None,
          ret |-> SortDescending(DesignersLoop(sh["designer_data"], cfg.config.start_row,
                                               start_date, end_date, <<>>),
                                 "total_earnings")]

\* The loop of get_clients_with_debts over the rows read.
RECURSIVE ClientsLoop(_, _, _, _, _)
ClientsLoop(grid, r, start_date, end_date, entries) ==
    IF r \notin DOMAIN grid THEN entries
    ELSE LET row == grid[r]
             amount == float_or_zero(row["I"])
             paid == float_or_zero(row["J"])
             debt == float_or_zero(row["K"])
             at == EntryOf(entries, "client", row["G"])
             old == IF at = 0
                    THEN [client |-> row["G"], orders_count |-> 0, total_amount |-> 0,
                          total_paid |-> 0, total_debt |-> 0]
                    ELSE entries[at]
             new == [client |-> row["G"], orders_count |-> old.orders_count + 1,
                     total_amount |-> old.total_amount + amount.value,
                     total_paid |-> old.total_paid + paid.value,
                     total_debt |-> old.total_debt + debt.value]
         IN  IF \/ row["G"] = Empty
                \/ ~is_date_in_range(row["F"], start_date, end_date)
                \/ amount.raised # None \/ paid.raised # None \/ debt.raised # None
             THEN ClientsLoop(grid, r + 1, start_date, end_date, entries)
             ELSE ClientsLoop(grid, r + 1, start_date, end_date,
                              IF at = 0 THEN Append(entries, new)
                              ELSE [entries EXCEPT ![at] = new])

\* get_clients_with_debts under one outcome of its read.
get_clients_with_debts(sh, start_date, end_date, read) ==
    LET cfg == get_sheet_config("clients_data") IN
    IF cfg.raised # None THEN [raised |-> cfg.raised, ret |-> <<>>]
    ELSE IF read = "Error" THEN [raised |-> "Error", ret |-> <<>>]
    ELSE IF read = "HttpError" THEN [raised |-> None, ret |-> <<>>]
    ELSE [raised |-> None,
          ret |-> SortDescending(ClientsLoop(sh["clients_data"], cfg.config.start_row,
                                             start_date, end_date, <<>>),
                                 "total_debt")]

\* A row of the designers' ledger as the aggregation reads it (F..K).
designer_view_row(date, designer, amount, percent, salary) ==
    [F |-> date, G |-> designer, H |-> "c", I |-> amount, J |-> percent, K |-> salary]

\* A row of the client ledger as the aggregation reads it (F..K).
client_view_row(date, client, amount, paid, debt) ==
    [F |-> date, G |-> client, H |-> "d", I |-> amount, J |-> paid, K |-> debt]

\* The rows of the designers' ledgers: orders of the percent model with the
\* percent as 40 and as 0.4, an order of the salary model, a row from before
\* the salary check whose salary is above its amount, a row of texts, a row
\* with a day and a month only, a row of last year, a row without a name.
DesignerRowA == designer_view_row(Date(3, 11, 2026), "d", NumberCell(10000), NumberCell(40000), NumberCell(0))
DesignerRowB == designer_view_row(Date(4, 11, 2026), "d", NumberCell(20000), NumberCell(400), EmptyCell)
DesignerRowC == designer_view_row(Date(5, 11, 2026), "e", NumberCell(10000), NumberCell(0), NumberCell(3000))
DesignerRowD == designer_view_row(Date(2, 10, 2026), "e", NumberCell(10000), NumberCell(0), NumberCell(15000))
DesignerRowE == designer_view_row(<<Word>>, "Designer", TextCell, TextCell, TextCell)
DesignerRowF == designer_view_row(<<Part(6), Part(11)>>, "e", NumberCell(20000), NumberCell(50000), NumberCell(0))
DesignerRowG == designer_view_row(Date(7, 11, 2025), "d", NumberCell(10000), NumberCell(40000), NumberCell(0))
DesignerRowH == designer_view_row(Date(1, 11, 2026), Empty, NumberCell(10000), EmptyCell, EmptyCell)

DesignerBooks ==
    { <<DesignerRowA, DesignerRowB, DesignerRowC>>, <<DesignerRowC, DesignerRowE, DesignerRowA>>,
      <<DesignerRowF, DesignerRowG, DesignerRowH>>, <<DesignerRowD, DesignerRowA, DesignerRowF>>,
      <<DesignerRowB, DesignerRowD, DesignerRowG>> }

\* The rows of the client ledgers.
ClientRowA == client_view_row(Date(3, 11, 2026), "c", NumberCell(10000), NumberCell(4000), NumberCell(6000))
ClientRowB == client_view_row(Date(4, 11, 2026), "c", NumberCell(20000), NumberCell(20000), NumberCell(0))
ClientRowC == client_view_row(Date(5, 11, 2026), "x", NumberCell(30000), EmptyCell, NumberCell(30000))
ClientRowD == client_view_row(Date(2, 10, 2026), "x", NumberCell(10000), NumberCell(0), NumberCell(10000))
ClientRowE == client_view_row(<<Word>>, "Client", TextCell, TextCell, TextCell)
ClientRowF == client_view_row(<<Part(6), Part(11)>>, "y", NumberCell(10000), NumberCell(4000), NumberCell(6000))
ClientRowG == client_view_row(Date(1, 11, 2026), "c", NumberCell(10000), TextCell, NumberCell(10000))
ClientRowH == client_view_row(Date(1, 11, 2026), Empty, NumberCell(10000), EmptyCell, EmptyCell)

ClientBooks ==
    { <<ClientRowA, ClientRowB, ClientRowC>>, <<ClientRowC, ClientRowE, ClientRowA>>,
      <<ClientRowF, ClientRowG, ClientRowA>>, <<ClientRowD, ClientRowA, ClientRowH>>,
      <<ClientRowB, ClientRowD, ClientRowF>>, <<ClientRowA, ClientRowE, ClientRowC>> }

\* The rows of a book from the table's start row on.
GridOf(config, book) ==
    [r \in config.start_row .. (config.start_row + Len(book) - 1) |->
        book[r - config.start_row + 1]]

\* get_designers_with_earnings, called for a period.
GetDesignersWithEarnings ==
    /\ \E period \in Periods, read \in StoreOutcomes :
          LET w == get_designers_with_earnings(sheets, period.start_date,
                                               period.end_date, read)
          IN  /\ call' = [op |-> "get_designers_with_earnings", period |-> period,
                          read |-> read, raised |-> w.raised]
              /\ result' = [kind |-> "designers", entries |-> w.ret]
    /\ UNCHANGED <<registry, sheets, tx, last, trace, fsm, sessions>>

\* get_clients_with_debts, called for a period.
GetClientsWithDebts ==
    /\ \E period \in Periods, read \in StoreOutcomes :
          LET w == get_clients_with_debts(sheets, period.start_date,
                                          period.end_date, read)
          IN  /\ call' = [op |-> "get_clients_with_debts", period |-> period,
                          read |-> read, raised |-> w.raised]
              /\ result' = [kind |-> "clients", entries |-> w.ret]
    /\ UNCHANGED <<registry, sheets, tx, last, trace, fsm, sessions>>

InitViews ==
    /\ registry = SHEETS_CONFIG
    /\ \E designers \in DesignerBooks, clients \in ClientBooks :
          sheets = [k \in {"designer_data", "clients_data"} |->
                       IF k = "designer_data" THEN GridOf(DESIGNER_DATA, designers)
                       ELSE GridOf(CLIENTS_DATA, clients)]
    /\ call = NoCall
    /\ tx = NoTx
    /\ result = NoResult
    /\ last = NoLast
    /\ trace = <<>>
    /\ fsm = NoFsm
    /\ sessions = NoSessions

NextViews == GetDesignersWithEarnings \/ GetClientsWithDebts

SpecViews == InitViews /\ [][NextViews]_vars


\* ------------------------------------------------ claims on the aggregations
\* The designers aggregation has answered from the rows it read.
DesignersRead == call.op = "get_designers_with_earnings" /\ call.read = "ok"

\* C24: the designers aggregation clamps a row's earnings to its order
\* amount, so no designer's total_earnings exceeds that designer's
\* total_amount, also when a stored salary is above its order amount.
C24_EarningsWithinAmount ==
    DesignersRead =>
        \A i \in 1 .. Len(result.entries) :
            result.entries[i].total_earnings <= result.entries[i].total_amount

\* A stored row whose salary is above its order amount.
SalaryAboveAmount(row) ==
    /\ row["I"].kind = "number"
    /\ row["K"].kind = "number"
    /\ row["K"].n > row["I"].n

\* What does hold: the totals are within the amounts when no row of the
\* ledger has a salary above its amount.
EarningsWithinAmountWithoutSuchRows ==
    (DesignersRead /\ \A r \in DOMAIN sheets["designer_data"] :
                          ~SalaryAboveAmount(sheets["designer_data"][r]))
        => \A i \in 1 .. Len(result.entries) :
               result.entries[i].total_earnings <= result.entries[i].total_amount


\* ---------------------------------------------------------- the pure order
\* The dialogue of an agency order without a designer: amount, payment,
\* wallet, confirmation.
PureWaitingForAmount == "PureOrderStates:waiting_for_amount"
PureWaitingForActualPayment == "PureOrderStates:waiting_for_actual_payment"
PureWaitingForWallet == "PureOrderStates:waiting_for_wallet"
PureWaitingForConfirmation == "PureOrderStates:waiting_for_confirmation"

PureAmounts == Numbers({0 - 1000, 0, 5000, 10000, 15000})
PurePayments == Numbers({0 - 1000, 0, 5000, 20000})

\* The callback data of get_wallet_keyboard, after "wallet:".
Wallets == {"operational", "reserve", "split"}

\* pure_order_amount
PureOrderAmount ==
    /\ fsm.state = PureWaitingForAmount
    /\ \E message \in PureAmounts :
          IF ~message.number \/ message.value <= 0
          THEN /\ call' = [op |-> "pure_order_amount", message |-> message,
                           reply |-> "invalid"]
               /\ UNCHANGED fsm
          ELSE /\ fsm' = [state |-> PureWaitingForActualPayment,
                          data |-> update_data(fsm.data, [amount |-> message.value])]
               /\ call' = [op |-> "pure_order_amount", message |-> message,
                           reply |-> "next"]
    /\ UNCHANGED <<registry, sheets, tx, result, last, trace, sessions>>

\* pure_order_actual_payment
PureOrderActualPayment ==
    /\ fsm.state = PureWaitingForActualPayment
    /\ \E message \in PurePayments :
          IF ~message.number \/ message.value < 0
          THEN /\ call' = [op |-> "pure_order_actual_payment", message |-> message,
                           reply |-> "invalid"]
               /\ UNCHANGED fsm
          ELSE /\ fsm' = [state |-> PureWaitingForWallet,
                          data |-> update_data(fsm.data, [actual_payment |-> message.value])]
               /\ call' = [op |-> "pure_order_actual_payment", message |-> message,
                           reply |-> "next"]
    /\ UNCHANGED <<registry, sheets, tx, result, last, trace, sessions>>

all_to_both(wallet, amount) == [wallet_operational |-> amount, wallet_reserve |-> amount]
\* The parts of the amount that go to the two wallets, as pure_order_wallet
\* computes them.
wallet_split(wallet, amount) ==
    IF wallet = "operational" THEN [wallet_operational |-> amount, wallet_reserve |-> 0]
    ELSE IF wallet = "reserve" THEN [wallet_operational |-> 0, wallet_reserve |-> amount]
    ELSE [wallet_operational |-> Div(amount, 2 * Scale),
          wallet_reserve |-> Div(amount, 2 * Scale)]

\* pure_order_wallet
PureOrderWallet ==
    /\ fsm.state = PureWaitingForWallet
    /\ \E wallet \in Wallets :
          LET parts == wallet_split(wallet, fsm.data.amount) IN
          /\ fsm' = [state |-> PureWaitingForConfirmation,
                     data |-> update_data(fsm.data,
                                 [wallet |-> wallet,
                                  wallet_operational |-> parts.wallet_operational,
                                  wallet_reserve |-> parts.wallet_reserve])]
          /\ call' = [op |-> "pure_order_wallet", wallet |-> wallet]
    /\ UNCHANGED <<registry, sheets, tx, result, last, trace, sessions>>


\* ------------------------------------------------- the running balances
\* The balance cells (T, U) of the last data row as write_to_general reads
\* them: a number, an empty cell, or a text float() rejects.
BalanceCells == {EmptyCell, TextCell, NumberCell(30), NumberCell(50)}

\* The previous balances of write_to_general: 0 and 0 when there is no data
\* row; else what float() gives for the cells read, a cell that is empty
\* keeping 0, and 0 and 0 again when the read or a conversion fails.
previous_balances(has_row, t_cell, u_cell, read) ==
    IF ~has_row THEN [raised |-> None, t |-> 0, u |-> 0]
    ELSE IF read = "Error" THEN [raised |-> "Error", t |-> 0, u |-> 0]
    ELSE IF read = "HttpError" THEN [raised |-> None, t |-> 0, u |-> 0]
    ELSE IF float_or_zero(t_cell).raised # None \/ float_or_zero(u_cell).raised # None
    THEN [raised |-> None, t |-> 0, u |-> 0]
    ELSE [raised |-> None, t |-> float_or_zero(t_cell).value,
          u |-> float_or_zero(u_cell).value]

\* t_value: the operational balance of the new row.
t_value(prev_t_balance, wallet_operational, expense_amount) ==
    IF wallet_operational > 0 \/ expense_amount > 0
    THEN prev_t_balance + wallet_operational - expense_amount
    ELSE prev_t_balance

\* u_value: the reserve balance of the new row, an empty cell when there is
\* no inflow and the previous balance is not above 0.
u_value(prev_u_balance, wallet_reserve) ==
    IF wallet_reserve > 0 THEN NumberCell(prev_u_balance + wallet_reserve)
    ELSE IF prev_u_balance > 0 THEN NumberCell(prev_u_balance)
    ELSE EmptyCell

GeneralIds == {"g1", "g2"}
Inflows == {0, 30, 50}
ExpenseAmounts == {0, 20}

\* write_to_general, called by a confirm handler.
WriteToGeneral ==
    /\ \E operation_id \in GeneralIds, wallet_operational \in Inflows,
          wallet_reserve \in Inflows \ {50}, expense_amount \in ExpenseAmounts :
          \E w \in write_to_general(sheets, operation_id, date_str) :
              /\ sheets' = w.sheets
              /\ call' = [op |-> "write_to_general", operation_id |-> operation_id,
                          wallet_operational |-> wallet_operational,
                          wallet_reserve |-> wallet_reserve,
                          expense_amount |-> expense_amount,
                          raised |-> w.raised, ret |-> w.ret]
    /\ UNCHANGED <<registry, tx, result, last, trace, fsm, sessions>>

\* The balance step of write_to_general: the previous balances are read and
\* the balances of the new row derived from them.
ComputeBalances ==
    /\ \E has_row \in BOOLEAN, t_cell \in BalanceCells, u_cell \in BalanceCells \ {NumberCell(50)},
          read \in StoreOutcomes, wallet_operational \in Inflows,
          wallet_reserve \in Inflows \ {50}, expense_amount \in ExpenseAmounts :
          /\ ~has_row => t_cell = EmptyCell /\ u_cell = EmptyCell
          /\ LET prev == previous_balances(has_row, t_cell, u_cell, read) IN
            call' = [op |-> "balances", has_row |-> has_row, t_cell |-> t_cell,
                     u_cell |-> u_cell, read |-> read,
                     wallet_operational |-> wallet_operational,
                     wallet_reserve |-> wallet_reserve,
                     expense_amount |-> expense_amount,
                     raised |-> prev.raised,
                     T |-> NumberCell(t_value(prev.t, wallet_operational, expense_amount)),
                     U |-> u_value(prev.u, wallet_reserve)]
    /\ UNCHANGED <<registry, sheets, tx, result, last, trace, fsm, sessions>>

\* What pure_income_confirm passes to write_to_general for the wallets: the
\* amount as wallet_reserve, nothing (the default 0) as wallet_operational.
pure_income_wallets(amount) == [wallet_operational |-> 0, wallet_reserve |-> amount]

\* The balance step of write_to_general as pure_income_confirm calls it, for
\* an amount pure_income_enter_amount accepted.
PureIncomeBalances ==
    /\ \E has_row \in BOOLEAN, t_cell \in BalanceCells, u_cell \in BalanceCells \ {NumberCell(50)},
          read \in StoreOutcomes, amount \in Inflows \ {0} :
          /\ ~has_row => t_cell = EmptyCell /\ u_cell = EmptyCell
          /\ LET prev == previous_balances(has_row, t_cell, u_cell, read)
                 wallets == pure_income_wallets(amount)
             IN  call' = [op |-> "pure_income_balances", has_row |-> has_row,
                          t_cell |-> t_cell, u_cell |-> u_cell, read |-> read,
                          amount |-> amount, raised |-> prev.raised,
                          T |-> NumberCell(t_value(prev.t, wallets.wallet_operational, 0)),
                          U |-> u_value(prev.u, wallets.wallet_reserve)]
    /\ UNCHANGED <<registry, sheets, tx, result, last, trace, fsm, sessions>>

\* The stores the general ledger starts from: empty, or with its first row
\* taken.
GeneralStores ==
    { sh \in InitialStores : /\ sh["designer_data"] = EmptyGrid(DESIGNER_DATA)
                             /\ sh["clients_data"] = EmptyGrid(CLIENTS_DATA) }

InitGeneral ==
    /\ registry = SHEETS_CONFIG
    /\ sheets \in GeneralStores
    /\ call = NoCall
    /\ tx = NoTx
    /\ result = NoResult
    /\ last = NoLast
    /\ trace = <<>>
    /\ fsm = NoFsm
    /\ sessions = NoSessions

NextGeneral == WriteToGeneral \/ ComputeBalances \/ PureIncomeBalances

SpecGeneral == InitGeneral /\ [][NextGeneral]_vars

\* ------------------------------------------- claims on the running balances
\* A cell's value as a balance: an empty cell stands for 0.
BalanceOf(cell) == IF cell.kind = "number" THEN cell.n ELSE 0

\* The general ledger holds a row of the operation.
HasGeneralRow(operation_id) ==
    \E r \in DOMAIN sheets["general"] : sheets["general"][r]["A"] = operation_id

\* C26: every write_to_general call adds a general-ledger row whose
\* operational balance is the preceding data row's operational balance plus
\* the operational inflow minus the expense and whose reserve balance is the
\* preceding reserve balance plus the reserve inflow, the previous balances
\* being zero when there is no preceding row.
C26_BalancesCumulative ==
    /\ call.op = "write_to_general" => HasGeneralRow(call.operation_id)
    /\ (call.op = "balances" /\ call.raised = None) =>
          LET prev_t == IF call.has_row THEN BalanceOf(call.t_cell) ELSE 0
              prev_u == IF call.has_row THEN BalanceOf(call.u_cell) ELSE 0
          IN  /\ BalanceOf(call.T)
                   = prev_t + call.wallet_operational - call.expense_amount
              /\ BalanceOf(call.U) = prev_u + call.wallet_reserve

\* What does hold of the balance step: the balances are cumulative when the
\* read of the preceding row answers and both of its cells are numbers or
\* empty.
BalancesCumulativeWhenRead ==
    (/\ call.op = "balances"
     /\ call.raised = None
     /\ call.has_row => (/\ call.read = "ok"
                           /\ call.t_cell.kind # "text"
                           /\ call.u_cell.kind # "text")) =>
          LET prev_t == IF call.has_row THEN BalanceOf(call.t_cell) ELSE 0
              prev_u == IF call.has_row THEN BalanceOf(call.u_cell) ELSE 0
          IN  /\ BalanceOf(call.T)
                   = prev_t + call.wallet_operational - call.expense_amount
              /\ BalanceOf(call.U) = prev_u + call.wallet_reserve

\* No call of write_to_general gets past the lookup of its layouts.
WriteToGeneralRaises ==
    call.op = "write_to_general" => call.raised \in {"KeyError", "Error"} /\ sheets \in GeneralStores


\* ------------------------------------------------- the category registry
\* A row of the registry: A = operation id, B = type, C = name, D = status,
\* E = date.
category_row(operation_id, category_type, name, status) ==
    [A |-> operation_id, B |-> category_type, C |-> name, D |-> status, E |-> date_str]
NoCategory == [A |-> Empty, B |-> Empty, C |-> Empty, D |-> Empty, E |-> Empty]

\* The first row from read_start on whose type and name are those given.
RowOfCategory(grid, matches(_)) ==
    LET at == { r \in DOMAIN grid : matches(grid[r]) }
    IN  IF at = {} THEN 0 ELSE CHOOSE r \in at : \A q \in at : r <= q

find_row_of_any_type(sh, client_name, read) ==
    IF read = "Error" THEN [raised |-> "Error", row |-> 0]
    ELSE IF read = "HttpError" THEN [raised |-> None, row |-> 0]
    ELSE [raised |-> None,
          row |-> RowOfCategory(sh["categories"],
                      LAMBDA row : Lower(row["C"]) = Lower(client_name))]

\* _find_client_row_in_categories under one outcome of its read: None (0)
\* when the read raises HttpError or no row matches.
find_client_row_in_categories(sh, client_name, read) ==
    IF read = "Error" THEN [raised |-> "Error", row |-> 0]
    ELSE IF read = "HttpError" THEN [raised |-> None, row |-> 0]
    ELSE [raised |-> None,
          row |-> RowOfCategory(sh["categories"],
                      LAMBDA row : /\ Lower(row["B"]) = "client"
                                   /\ Lower(row["C"]) = Lower(client_name))]

\* _find_category_row under one outcome of its read.
find_category_row(sh, category_type, name, read) ==
    IF read = "Error" THEN [raised |-> "Error", row |-> 0]
    ELSE IF read = "HttpError" THEN [raised |-> None, row |-> 0]
    ELSE [raised |-> None,
          row |-> RowOfCategory(sh["categories"],
                      LAMBDA row : /\ Lower(row["B"]) = Lower(category_type)
                                   /\ Lower(row["C"]) = Lower(name))]

\* The tail of both operations when no row is found: the first empty row of
\* the registry, then update_range of A:E, whose HttpError gives False.
append_category(sh, operation_id, category_type, name, status) ==
    UNION {
        LET first_empty == get_first_empty_row(sh, "categories", None, read) IN
        IF first_empty.raised # None THEN {Outcome(sh, first_empty.raised, FALSE)}
        ELSE { IF w.raised = "HttpError" THEN Outcome(w.sheets, None, FALSE) ELSE w :
                 w \in update_range_call(sh, "categories", first_empty.row,
                           category_row(operation_id, category_type, name, status)) }
        : read \in StoreOutcomes }

\* set_client_list_status
set_client_list_status(sh, operation_id, client_name, status) ==
    UNION {
        LET row_num == find_client_row_in_categories(sh, client_name, read) IN
        IF row_num.raised # None THEN {Outcome(sh, row_num.raised, FALSE)}
        ELSE IF row_num.row # 0
        THEN update_cell(sh, "categories", row_num.row, "D", status)
        ELSE append_category(sh, operation_id, "client", client_name, status)
        : read \in StoreOutcomes }

\* add_category
add_category(sh, operation_id, category_type, name, status) ==
    UNION {
        LET existing == find_category_row(sh, category_type, name, read) IN
        IF existing.raised # None THEN {Outcome(sh, existing.raised, FALSE)}
        ELSE IF existing.row # 0 THEN {Outcome(sh, None, FALSE)}
        ELSE append_category(sh, operation_id, category_type, name, status)
        : read \in StoreOutcomes }

CategoryNames == {"c", "C", "x"}
CategoryTypes == {"client", "designer"}
Statuses == {"whitelist", "blacklist", "active"}

\* The registries the operations start from, from row 2 on: empty; one
\* client; a designer and a client of the same name.
CategoryGrids ==
    { [r \in 2 .. 5 |-> NoCategory],
      [r \in 2 .. 5 |-> IF r = 2 THEN category_row("k1", "client", "c", "active")
                        ELSE NoCategory],
      [r \in 2 .. 5 |-> IF r = 2 THEN category_row("k1", "designer", "c", "active")
                        ELSE IF r = 3 THEN category_row("k2", "client", "c", "whitelist")
                        ELSE IF r = 4 THEN category_row("k3", "client", "x", "active")
                        ELSE NoCategory] }

SetClientListStatus ==
    /\ \E client_name \in CategoryNames, status \in Statuses :
          \E w \in set_client_list_status(sheets, NewId, client_name, status) :
              /\ sheets' = w.sheets
              /\ call' = [op |-> "set_client_list_status", name |-> client_name,
                          status |-> status, raised |-> w.raised, ret |-> w.ret]
    /\ UNCHANGED <<registry, tx, result, last, trace, fsm, sessions>>

AddCategory ==
    /\ \E category_type \in CategoryTypes, name \in CategoryNames :
          \E w \in add_category(sheets, NewId, category_type, name, "active") :
              /\ sheets' = w.sheets
              /\ call' = [op |-> "add_category", name |-> name,
                          status |-> "active", raised |-> w.raised, ret |-> w.ret]
    /\ UNCHANGED <<registry, tx, result, last, trace, fsm, sessions>>

InitCategories ==
    /\ registry = SHEETS_CONFIG
    /\ \E grid \in CategoryGrids : sheets = [k \in {"categories"} |-> grid]
    /\ call = NoCall
    /\ tx = NoTx
    /\ result = NoResult
    /\ last = NoLast
    /\ trace = <<>>
    /\ fsm = NoFsm
    /\ sessions = NoSessions

NextCategories == SetClientListStatus \/ AddCategory

SpecCategories == InitCategories /\ [][NextCategories]_vars

\* ---------------------------------------------------- claims on the registry
\* The rows of the registry that are the client's.
ClientRowsOf(grid, name) ==
    { r \in DOMAIN grid : grid[r]["B"] = "client" /\ Lower(grid[r]["C"]) = Lower(name) }

FormulaRow == 4
SumTo(end_row) == [sum |-> TRUE, end |-> end_row]
IncomeColumns == {"A", "F"}
FormulaCell(end_row) == [c \in IncomeColumns |-> IF c = "F" THEN SumTo(end_row) ELSE Empty]

\* insert_row_with_formulas: a row is inserted after after_row and the cells
\* of after_row are pasted into it, in one batch; HttpError, or a sheet id
\* that is not found, gives False. The row above the table, which the model
\* does not keep, pastes the text "header".
insert_row_with_formulas(sh, sheet_key, after_row) ==
    LET inserted ==
            [sh EXCEPT ![sheet_key] =
                [r \in DOMAIN @ |->
                    IF r <= after_row THEN @[r]
                    ELSE IF r = after_row + 1
                    THEN (IF after_row \in DOMAIN @ THEN @[after_row]
                          ELSE [c \in DOMAIN @[r] |-> "header"])
                    ELSE @[r - 1]]]
    IN  { Outcome(inserted, None, TRUE), Outcome(sh, None, FALSE), Outcome(sh, "Error", FALSE) }

end_row_kept(sh, sheet_key, new_end_row) ==
    { Outcome(sh, None, TRUE), Outcome(sh, None, FALSE), Outcome(sh, "Error", FALSE) }

\* expand_sum_formula_range on F4: initialize may raise; past it every
\* exception is caught and gives False, as does an empty cell or a formula
\* that is not a SUM over a range; else the end row of the range is replaced.
expand_sum_formula_range(sh, sheet_key, new_end_row) ==
    LET formula == sh[sheet_key][FormulaRow]["F"]
        expanded == update_range(sh, sheet_key, FormulaRow,
                                 [c \in {"F"} |-> SumTo(new_end_row)])
    IN  { Outcome(IF formula.sum THEN expanded ELSE sh, None, formula.sum),
          Outcome(sh, None, FALSE),
          Outcome(sh, "Error", FALSE) }

\* write_pure_income: the row after the last row with data in column F,
\* inserted when the table has data; the id, the date, the category and the
\* amount (columns G and H, which the tables of this model do not keep), each
\* by update_cell whose result is not looked at; then the formula of F4.
write_pure_income(sh, operation_id, date, category, amount) ==
    LET config == registry["pure_income"] IN
    UNION {
        LET last_row == get_last_data_row(sh, "pure_income", config.data_start_col,
                                          config.start_row, read) IN
        IF last_row.raised # None
        THEN {[sheets |-> sh, trace |-> <<>>, raised |-> last_row.raised, ret |-> 0,
               read |-> read]}
        ELSE
        LET new_row == IF last_row.row < config.start_row THEN config.start_row
                       ELSE last_row.row + 1
            n == IF last_row.row < config.start_row THEN {Begin(sh)}
                 ELSE { Called(Begin(sh), "insert_row_with_formulas", "row", w) :
                          w \in insert_row_with_formulas(sh, "pure_income", last_row.row) }
            a == Then(n, LAMBDA st :
                    { Called(st, "update_cell", "A", w) :
                        w \in update_cell(st.sheets, "pure_income", new_row, "A", operation_id) })
            f == Then(a, LAMBDA st :
                    { Called(st, "update_cell", "F", w) :
                        w \in update_cell(st.sheets, "pure_income", new_row, "F", date) })
            g == Then(f, LAMBDA st :
                    { Called(st, "update_cell", "G", w) :
                        w \in update_cell(st.sheets, "pure_income", new_row, "G", category) })
            h == Then(g, LAMBDA st :
                    { Called(st, "update_cell", "H", w) :
                        w \in update_cell(st.sheets, "pure_income", new_row, "H", amount) })
            e == Then(h, LAMBDA st :
                    { Called(st, "expand_sum_formula_range", "F4", w) :
                        w \in expand_sum_formula_range(st.sheets, "pure_income", new_row) })
        IN  { [sheets |-> st.sheets, trace |-> st.trace, raised |-> st.raised,
               ret |-> IF st.raised = None THEN new_row ELSE 0, read |-> read] : st \in e }
        : read \in StoreOutcomes }

\* delete_pure_income_row: the row of the id (False when there is none), the
\* last row with data in column F, the deletion of the row's dimension
\* (False on HttpError or when the sheet id is not found), then the formula of
\* F4 with the end row last_row - 1 when the table had data.
delete_pure_income_row(sh, operation_id) ==
    LET config == registry["pure_income"] IN
    UNION {
        LET row_num == find_row_by_operation_id(sh, "pure_income", operation_id, find)
            last_row == get_last_data_row(sh, "pure_income", "F", config.start_row, read)
        IN
        IF row_num.raised # None
        THEN {[sheets |-> sh, trace |-> <<>>, raised |-> row_num.raised, ret |-> FALSE,
               read |-> find, last_row |-> 0]}
        ELSE IF row_num.row = 0
        THEN {[sheets |-> sh, trace |-> <<>>, raised |-> None, ret |-> FALSE,
               read |-> find, last_row |-> 0]}
        ELSE IF last_row.raised # None
        THEN {[sheets |-> sh, trace |-> <<>>, raised |-> last_row.raised, ret |-> FALSE,
               read |-> read, last_row |-> 0]}
        ELSE
        LET d == { Called(Begin(sh), "deleteDimension", "row", w) :
                     w \in { Outcome(delete_dimension(sh, "pure_income", row_num.row, config),
                                     None, TRUE),
                             Outcome(sh, None, FALSE),
                             Outcome(sh, "Error", FALSE) } }
            e == Then(d, LAMBDA st :
                    IF st.ret = FALSE \/ last_row.row < config.start_row THEN {st}
                    ELSE { [Called(st, "expand_sum_formula_range", "F4", w)
                               EXCEPT !.ret = TRUE] :
                             w \in expand_sum_formula_range(st.sheets, "pure_income",
                                                            last_row.row - 1) })
        IN  { [sheets |-> st.sheets, trace |-> st.trace, raised |-> st.raised,
               ret |-> st.raised = None /\ st.ret, read |-> read,
               last_row |-> last_row.row] : st \in e }
        : find \in StoreOutcomes, read \in StoreOutcomes }

PureIncomeIds == {"p1"}

\* The pure-income tables the operations start from: no data row and the
\* range ending above the first, or one row of an earlier operation and the
\* range ending at it.
PureIncomeGrids ==
    { [r \in {FormulaRow} \cup GridRows(PURE_INCOME) |->
          IF r = FormulaRow THEN FormulaCell(PURE_INCOME.start_row + rows - 1)
          ELSE IF r < PURE_INCOME.start_row + rows
          THEN [c \in IncomeColumns |-> IF c = "A" THEN OtherId ELSE date_str]
          ELSE [c \in IncomeColumns |-> Empty]] : rows \in {0, 1} }

\* The end row of the range of F4.
EndRow(sh) == sh["pure_income"][FormulaRow]["F"].end

\* Every store call of the run answered: no read or write failed.
Answered(w) ==
    /\ w.raised = None
    /\ w.read = "ok"
    /\ \A i \in 1 .. Len(w.trace) : w.trace[i].ret = TRUE

\* The ends of the runs of an operation: the store it leaves, what it raised
\* and returned, and whether every store call answered.
Ends(runs) ==
    { [sheets |-> w.sheets, raised |-> w.raised, ret |-> w.ret, answered |-> Answered(w)] :
        w \in runs }

\* The operation ids the identifier column of the pure-income table holds.
IdsHeld(sh) ==
    { sh["pure_income"][r]["A"] : r \in GridRows(PURE_INCOME) } \ {Empty}

\* write_pure_income, called with a new operation id while the table has
\* room for a row; the call record keeps the ids the table held before it.
WritePureIncome ==
    /\ \E operation_id \in PureIncomeIds :
          /\ Fresh(operation_id)
          /\ LastFilled(sheets["pure_income"], "F", PURE_INCOME.start_row,
                        LastGridRow(PURE_INCOME)) < LastGridRow(PURE_INCOME) - 1
          /\ \E w \in Ends(write_pure_income(sheets, operation_id, date_str, "category", "10")) :
                /\ sheets' = w.sheets
                /\ call' = [op |-> "write_pure_income", operation_id |-> operation_id,
                            raised |-> w.raised, ret |-> w.ret, answered |-> w.answered,
                            end_before |-> EndRow(sheets),
                            last_row_before |->
                                LastFilled(sheets["pure_income"], "F", PURE_INCOME.start_row,
                                           LastGridRow(PURE_INCOME)),
                            ids_before |-> IdsHeld(sheets)]
    /\ UNCHANGED <<registry, tx, result, last, trace, fsm, sessions>>

\* delete_pure_income_row; the call record keeps what the write before it
\* recorded when that write was of the same operation id.
DeletePureIncomeRow ==
    /\ \E operation_id \in PureIncomeIds \cup {OtherId} :
          \E w \in Ends(delete_pure_income_row(sheets, operation_id)) :
              /\ sheets' = w.sheets
              /\ call' = [op |-> "delete_pure_income_row", operation_id |-> operation_id,
                          raised |-> w.raised, ret |-> w.ret,
                          answered |-> w.answered /\ w.ret,
                          end_before |-> EndRow(sheets),
                          last_row_before |->
                              LastFilled(sheets["pure_income"], "F", PURE_INCOME.start_row,
                                         LastGridRow(PURE_INCOME)),
                          after_write |-> /\ call.op = "write_pure_income"
                                          /\ call.operation_id = operation_id
                                          /\ call.answered,
                          write_end_before |-> IF call.op = "write_pure_income"
                                               THEN call.end_before ELSE 0,
                          write_last_row_before |-> IF call.op = "write_pure_income"
                                                    THEN call.last_row_before ELSE 0]
    /\ UNCHANGED <<registry, tx, result, last, trace, fsm, sessions>>

InitPureIncome ==
    /\ registry = SHEETS_CONFIG
    /\ \E grid \in PureIncomeGrids : sheets = [k \in {"pure_income"} |-> grid]
    /\ call = NoCall
    /\ tx = NoTx
    /\ result = NoResult
    /\ last = NoLast
    /\ trace = <<>>
    /\ fsm = NoFsm
    /\ sessions = NoSessions

NextPureIncome == WritePureIncome \/ DeletePureIncomeRow

SpecPureIncome == InitPureIncome /\ [][NextPureIncome]_vars


\* ------------------------------------------- claims on the pure income total
\* A write whose store calls all answered.
WriteAnswered == call.op = "write_pure_income" /\ call.answered

\* A deletion that found its row in a table with data and whose store calls
\* all answered.
DeleteAnswered30 ==
    /\ call.op = "delete_pure_income_row"
    /\ call.answered
    /\ call.last_row_before >= PURE_INCOME.start_row

confirm_pure_order_writes(sh, data) ==
    LET clients_data == <<date_str, data.client>>
        c0 == { Called(Begin(sh), "initialize", "client", w) : w \in initialize(sh) }
        c1 == Then(c0, LAMBDA st :
                { Called(st, "write_pure_income", "pure_income",
                         Outcome(w.sheets, w.raised, w.ret)) :
                    w \in write_pure_income(st.sheets, OrderId, date_str, "category",
                                            data.amount) })
        c2 == Then(c1, LAMBDA st :
                { Called(st, "write_row", "clients_data", w) :
                    w \in write_row(st.sheets, "clients_data", OrderId, clients_data, 0) })
        c3 == Then(c2, LAMBDA st :
                { Called(st, "write_to_general", "general", w) :
                    w \in write_to_general(st.sheets, OrderId, date_str) })
    IN  c3

\* confirm_pure_order: the progress message, the try block, and
\* state.clear() on both of its ends.
ConfirmPureOrder ==
    /\ fsm.state = PureWaitingForConfirmation
    /\ call.op \notin ConfirmOps
    /\ \E progress \in EditText, report \in EditText :
       \E st \in { [sheets |-> w.sheets, raised |-> w.raised] :
                     w \in Tried(progress, confirm_pure_order_writes(sheets, fsm.data),
                                 sheets) } :
          /\ sheets' = st.sheets
          /\ call' = [op |-> "confirm_pure_order", operation_id |-> OrderId,
                      raised |-> st.raised]
          /\ fsm' = state_after_confirm(progress, st.raised, report)
    /\ UNCHANGED <<registry, tx, result, last, trace, sessions>>

\* pure_order_client has stored the client; the tables are empty but for
\* the pure income's.
InitPure ==
    /\ registry = SHEETS_CONFIG
    /\ \E grid \in PureIncomeGrids :
          sheets = [k \in {"pure_income", "clients_data", "general"} |->
                       IF k = "pure_income" THEN grid ELSE EmptyGrid(SHEETS_CONFIG[k])]
    /\ call = NoCall
    /\ tx = NoTx
    /\ result = NoResult
    /\ last = NoLast
    /\ trace = <<>>
    /\ fsm = [state |-> PureWaitingForAmount, data |-> [client |-> "c"]]
    /\ sessions = NoSessions

NextPure == PureOrderAmount \/ PureOrderActualPayment \/ PureOrderWallet \/ ConfirmPureOrder

SpecPure == InitPure /\ [][NextPure]_vars


\* ------------------------------------------------ claims on the wallets
\* The dialogue has a wallet: pure_order_wallet was the last step.
WalletChosen == call.op = "pure_order_wallet" /\ fsm.state = PureWaitingForConfirmation

ExpenseWaitingForConfirmation == "ExpenseStates:waiting_for_confirmation"
PureIncomeWaitingForConfirmation == "PureIncomeStates:waiting_for_confirmation"

\* write_row_expanding_table: the row after the last row with data in the
\* first data column, inserted with the cells of the row above it; write_row
\* when the insertion gives False; else the id and each value by update_cell
\* whose result is not looked at, then the format_cells calls (six for the
\* expenses' table), which change no value and are kept as one call.
write_row_expanding_table(sh, sheet_key, operation_id, data) ==
    LET cfg == get_sheet_config(sheet_key) IN
    IF cfg.raised # None THEN {Outcome(sh, cfg.raised, 0)}
    ELSE
    LET config == cfg.config IN
    UNION {
        LET last_row == get_last_data_row(sh, sheet_key, config.data_start_col,
                                          config.start_row, read) IN
        IF last_row.raised # None THEN {Outcome(sh, last_row.raised, 0)}
        ELSE
        LET source_row == IF last_row.row < config.start_row THEN config.start_row - 1
                          ELSE last_row.row
            new_row == source_row + 1
            n == { Called(Begin(sh), "insert_row_with_formulas", "row", w) :
                     w \in insert_row_with_formulas(sh, sheet_key, source_row) }
            columns == { c \in Columns : /\ ColIndex(c) >= ColIndex(config.data_start_col)
                                         /\ c \in DOMAIN full_row(config, operation_id, data) }
            cells == Then(n, LAMBDA st :
                IF st.ret = FALSE
                THEN { Called(st, "write_row", sheet_key, w) :
                         w \in write_row(st.sheets, sheet_key, operation_id, data, 0) }
                ELSE
                LET a == { Called(st, "update_cell", "A", w) :
                             w \in update_cell(st.sheets, sheet_key, new_row,
                                               config.id_column, operation_id) }
                    f == Then(a, LAMBDA s1 :
                            { Called(s1, "update_cell", "F", w) :
                                w \in update_cell(s1.sheets, sheet_key, new_row, "F",
                                                  data[1]) })
                    g == Then(f, LAMBDA s2 :
                            { Called(s2, "update_cell", "G", w) :
                                w \in update_cell(s2.sheets, sheet_key, new_row, "G",
                                                  data[2]) })
                    formats == Then(g, LAMBDA s3 :
                            { Called(s3, "format_cells", "A:K", w) :
                                w \in format_cells(s3.sheets) })
                IN  { [s4 EXCEPT !.ret = IF s4.raised = None THEN new_row ELSE 0] :
                        s4 \in formats })
        IN  { Outcome(st.sheets, st.raised, IF st.raised = None THEN st.ret ELSE 0) :
                st \in cells }
        : read \in StoreOutcomes }

\* expense_confirm: the progress message, initialize and
\* write_row_expanding_table in the try block (nothing goes to the general
\* ledger), and state.clear() on both of its ends.
ExpenseConfirm ==
    /\ fsm.state = ExpenseWaitingForConfirmation
    /\ call.op \notin ConfirmOps
    /\ \E progress \in EditText, report \in EditText :
       \E st \in Tried(progress,
                       Then({ Called(Begin(sheets), "initialize", "client", w) :
                                w \in initialize(sheets) },
                            LAMBDA s :
                                { Called(s, "write_row_expanding_table", "expenses", w) :
                                    w \in write_row_expanding_table(
                                              s.sheets, "expenses", OrderId,
                                              <<date_str, fsm.data.category>>) }),
                       sheets) :
          /\ sheets' = st.sheets
          /\ call' = [op |-> "expense_confirm", operation_id |-> OrderId,
                      data |-> <<date_str, fsm.data.category>>,
                      raised |-> st.raised, ret |-> st.ret]
          /\ fsm' = state_after_confirm(progress, st.raised, report)
    /\ UNCHANGED <<registry, tx, result, last, trace, sessions>>

\* The writes of pure_income_confirm's try block: initialize, the pure-income
\* row, the general ledger.
pure_income_confirm_writes(sh, data) ==
    Then(Then({ Called(Begin(sh), "initialize", "client", w) : w \in initialize(sh) },
              LAMBDA s :
                  { Called(s, "write_pure_income", "pure_income",
                           Outcome(w.sheets, w.raised, w.ret)) :
                      w \in write_pure_income(s.sheets, OrderId, date_str, data.category,
                                              data.amount) }),
         LAMBDA s : { Called(s, "write_to_general", "general", w) :
                        w \in write_to_general(s.sheets, OrderId, date_str) })

\* pure_income_confirm: the progress message, the try block, and
\* state.clear() on both of its ends.
PureIncomeConfirm ==
    /\ fsm.state = PureIncomeWaitingForConfirmation
    /\ call.op \notin ConfirmOps
    /\ \E progress \in EditText, report \in EditText :
       \E st \in { [sheets |-> r.sheets, raised |-> r.raised] :
                     r \in Tried(progress, pure_income_confirm_writes(sheets, fsm.data),
                                 sheets) } :
          /\ sheets' = st.sheets
          /\ call' = [op |-> "pure_income_confirm", operation_id |-> OrderId,
                      raised |-> st.raised]
          /\ fsm' = state_after_confirm(progress, st.raised, report)
    /\ UNCHANGED <<registry, tx, result, last, trace, sessions>>

\* The dialogues a chat can be in on its way to a confirm step: a designer
\* order asked for the payment, a payment asked for its amount, a pure order
\* asked for its amount, an expense and a pure income asked to confirm.
InitConfirm ==
    /\ registry = SHEETS_CONFIG
    /\ call = NoCall
    /\ tx = NoTx
    /\ result = NoResult
    /\ last = NoLast
    /\ trace = <<>>
    /\ sessions = NoSessions
    /\ \/ /\ sheets \in InitialStores
          /\ \E data \in EnteredOrders :
                fsm = [state |-> WaitingForActualPayment, data |-> data]
       \/ \E grid \in InitialLedgers, client \in ClientNames :
             /\ sheets = [k \in {"clients_data", "general"} |->
                             IF k = "clients_data" THEN grid ELSE GeneralOf(grid)]
             /\ LET got == get_client_orders_with_debt(sheets, client, "ok") IN
                /\ got.orders # <<>>
                /\ SumOf(got.orders, "debt") > 0
                /\ fsm = [state |-> PaymentWaitingForAmount,
                          data |-> [client |-> client, orders |-> got.orders,
                                    total_debt |-> SumOf(got.orders, "debt")]]
       \/ /\ \E grid \in PureIncomeGrids :
                sheets = [k \in {"pure_income", "clients_data", "general"} |->
                             IF k = "pure_income" THEN grid ELSE EmptyGrid(SHEETS_CONFIG[k])]
          /\ fsm \in { [state |-> PureWaitingForAmount, data |-> [client |-> "c"]],
                       [state |-> PureIncomeWaitingForConfirmation,
                        data |-> [category |-> "category", amount |-> 10000]] }
       \/ /\ sheets \in { [k \in {"expenses"} |-> grid] :
                            grid \in {EmptyGrid(EXPENSES), FirstRowTaken(EXPENSES)} }
          /\ fsm = [state |-> ExpenseWaitingForConfirmation,
                    data |-> [category |-> "category", amount |-> 10000]]

NextConfirm ==
    \/ EnterActualPayment
    \/ ConfirmOrder
    \/ PaymentEnterAmount
    \/ PaymentConfirm
    \/ PureOrderAmount
    \/ PureOrderActualPayment
    \/ PureOrderWallet
    \/ ConfirmPureOrder
    \/ ExpenseConfirm
    \/ PureIncomeConfirm

SpecConfirm == InitConfirm /\ [][NextConfirm]_vars


\* --------------------------------------------- claims on the confirm steps
ConfirmationStates ==
    {WaitingForConfirmation, PureWaitingForConfirmation, PaymentWaitingForConfirmation,
     ExpenseWaitingForConfirmation, PureIncomeWaitingForConfirmation}

\* C28: when the confirm step of an order, a pure order, a payment, an
\* expense or a pure income has ended, by success or by any failure, the
\* dialogue state is cleared: the chat waits for no confirmation.
C28_ConfirmClearsState ==
    call.op \in ConfirmOps => fsm = NoFsm /\ fsm.state \notin ConfirmationStates

\* The same for the confirm steps whose try block raised nothing.
ConfirmClearsStateOnSuccess ==
    (call.op \in ConfirmOps /\ call.op # "payment_confirm" /\ call.raised = None)
        => fsm = NoFsm

\* A confirm step of a pure order that failed at the client ledger, after
\* the pure-income row was written, and left the chat waiting for the
\* confirmation.
ConfirmFailedAndWaiting ==
    /\ call.op = "confirm_pure_order"
    /\ call.raised = "AttributeError"
    /\ \E r \in DOMAIN sheets["pure_income"] : sheets["pure_income"][r]["A"] = OrderId
    /\ fsm.state = PureWaitingForConfirmation



\* --------------------------------------------- claims on the clients' debts
ClientsRead == call.op = "get_clients_with_debts" /\ call.read = "ok"

\* The rows of the client ledger the aggregation counts in the period of the
\* call: a name, a date in the range, and three cells float() takes.
CountedRows ==
    LET grid == sheets["clients_data"] IN
    { r \in DOMAIN grid :
        /\ grid[r]["G"] # Empty
        /\ is_date_in_range(grid[r]["F"], call.period.start_date, call.period.end_date)
        /\ \A c \in {"I", "J", "K"} : grid[r][c].kind # "text" }

\* The sum of a column over a set of rows, an empty cell counting as 0.
RECURSIVE SumOfCells(_, _)
SumOfCells(rows, col) ==
    IF rows = {} THEN 0
    ELSE LET r == CHOOSE q \in rows : TRUE
             cell == sheets["clients_data"][r][col]
         IN  (IF cell.kind = "number" THEN cell.n ELSE 0) + SumOfCells(rows \ {r}, col)

\* C29: get_clients_with_debts returns one entry per distinct client name,
\* whose orders_count is the number of the client's rows in the date range
\* and whose total_amount, total_paid and total_debt are the sums over those
\* rows, sorted by total_debt descending; a row whose numeric cells do not
\* parse is skipped and nothing is raised.
C29_ClientsAggregated ==
    ClientsRead =>
        LET entries == result.entries
            grid == sheets["clients_data"]
        IN  /\ call.raised = None
            /\ \A i, j \in 1 .. Len(entries) : entries[i].client = entries[j].client => i = j
            /\ { entries[i].client : i \in 1 .. Len(entries) }
                   = { grid[r]["G"] : r \in CountedRows }
            /\ \A i \in 1 .. Len(entries) :
                  LET rows == { r \in CountedRows : grid[r]["G"] = entries[i].client } IN
                  /\ entries[i].orders_count = Cardinality(rows)
                  /\ entries[i].total_amount = SumOfCells(rows, "I")
                  /\ entries[i].total_paid = SumOfCells(rows, "J")
                  /\ entries[i].total_debt = SumOfCells(rows, "K")
            /\ \A i \in 1 .. Len(entries) - 1 :
                  entries[i].total_debt >= entries[i + 1].total_debt

\* Two clients in a ledger with a row of texts between them: the client
\* with the larger debt comes first though its row was read last, and the
\* row of texts is in no entry.
C29_Witness ==
    /\ ClientsRead
    /\ call.raised = None
    /\ \E r \in DOMAIN sheets["clients_data"] : sheets["clients_data"][r]["I"].kind = "text"
    /\ Len(result.entries) = 2
    /\ result.entries[1].client = "x"
    /\ result.entries[1].total_debt = 30000
    /\ result.entries[2].client = "c"
    /\ result.entries[2].orders_count = 1
    /\ result.entries[2].total_debt = 6000



\* --------------------------------------------- claims on the cleared row
\* C31: delete_row_by_operation_id clears only the cells the bot manages:
\* in the row it clears, the cells of the protected columns (B to E) hold
\* after the call what they held before it.
C31_DeleteKeepsProtected ==
    (DeleteAnswered /\ call.ret = TRUE) =>
        \A r \in Holders(call.before, call.sheet_key, call.operation_id) :
            \A c \in registry[call.sheet_key].protected_columns \cap Columns :
                sheets[call.sheet_key][r][c] = call.before[call.sheet_key][r][c]

\* A deletion that found its row beside content of the protected area and
\* left the protected cell empty.
ProtectedCellCleared ==
    /\ DeleteAnswered
    /\ call.ret = TRUE
    /\ \E r \in Holders(call.before, call.sheet_key, call.operation_id) :
          /\ call.before[call.sheet_key][r]["B"] = "chart"
          /\ sheets[call.sheet_key][r]["B"] = Empty

\* What does hold: the cells of the columns past data_end_col and the cells
\* of every other row are left as they were.
DeleteKeepsCellsPastData ==
    (DeleteAnswered /\ call.ret = TRUE) =>
        \A k \in DOMAIN sheets : \A r \in DOMAIN sheets[k] : \A c \in Columns :
            (\/ k # call.sheet_key
             \/ r \notin Holders(call.before, call.sheet_key, call.operation_id)
             \/ ColIndex(c) > ColIndex(registry[k].data_end_col))
                => sheets[k][r][c] = call.before[k][r][c]



\* ------------------------------------- claims on the pure income's wallet
\* The balance step of a pure income whose read of the preceding row
\* answered with cells that are numbers or empty.
PureIncomeBalanced ==
    /\ call.op = "pure_income_balances"
    /\ call.raised = None
    /\ call.has_row => (/\ call.read = "ok"
                       /\ call.t_cell.kind # "text"
                       /\ call.u_cell.kind # "text")

\* C32: a pure income recorded without a wallet selection is added to the
\* operational wallet: the row of the general ledger has the previous
\* operational balance plus the amount and the previous reserve balance.
C32_PureIncomeToOperational ==
    PureIncomeBalanced =>
        LET prev_t == IF call.has_row THEN BalanceOf(call.t_cell) ELSE 0
            prev_u == IF call.has_row THEN BalanceOf(call.u_cell) ELSE 0
        IN  /\ BalanceOf(call.T) = prev_t + call.amount
            /\ BalanceOf(call.U) = prev_u

\* What the balance step gives: the amount is added to the reserve balance
\* and the operational balance is the previous one.
PureIncomeToReserve ==
    PureIncomeBalanced =>
        LET prev_t == IF call.has_row THEN BalanceOf(call.t_cell) ELSE 0
            prev_u == IF call.has_row THEN BalanceOf(call.u_cell) ELSE 0
        IN  /\ BalanceOf(call.T) = prev_t
            /\ BalanceOf(call.U) = prev_u + call.amount



\* ------------------------------------------- claims on the layout lookups
\* What a lookup of a layout raises: KeyError for a key that is not
\* registered, AttributeError for an attribute SheetConfig does not have.
LookupFailures == {"KeyError", "AttributeError"}

\* C33: every layout lookup of a ledger operation resolves: write_row, whose
\* placement calls get_first_empty_row without a check column, does not fail
\* on a missing layout key or attribute before it touches the store.
C33_LayoutLookupsResolve ==
    call.op = "write_row" => call.raised \notin LookupFailures

\* The same for write_to_general and its keys "general_pl" and
\* "general_data".
GeneralLookupsResolve ==
    call.op = "write_to_general" => call.raised \notin LookupFailures

\* A write_row that was given no row and raised AttributeError, the store
\* left as it was.
PlacementLookupFailed ==
    /\ call.op = "write_row"
    /\ call.row_number = 0
    /\ call.raised = "AttributeError"
    /\ sheets = call.before

\* What does hold: write_row fails on a lookup exactly when it is given no
\* row, and it then fails always.
WriteRowFailsWithoutRow ==
    call.op = "write_row" => (call.raised = "AttributeError" <=> call.row_number = 0)



\* ------------------------------------- claims on the payments of an order
\* The rows of the client ledger.
LedgerRows == DOMAIN sheets["clients_data"]

PaidAboveAmount ==
    /\ call.op = "payment_confirm"
    /\ \E r \in LedgerRows :
          /\ call.before["clients_data"][r]["J"] = call.before["clients_data"][r]["I"]
          /\ sheets["clients_data"][r]["J"] > sheets["clients_data"][r]["I"]

\* What does hold: one distribution applies to an order no more than the
\* debt cell (K) read for it, and the debt cell is what it was when the
\* order was entered.
OnePaymentWithinDebtCell ==
    call.op = "payment_confirm" =>
        \A r \in LedgerRows :
            /\ sheets["clients_data"][r]["K"] = call.before["clients_data"][r]["K"]
            /\ sheets["clients_data"][r]["J"] - call.before["clients_data"][r]["J"]
                   <= call.before["clients_data"][r]["K"]



\* ------------------------------------------ claims on the row handed out
\* The liveness cell of the row the last get_first_empty_row returned.
ReturnedCell == sheets[call.sheet_key][call.ret.row][call.check_column]

\* The rows of the lookahead window that are no skip rows.
WindowRows ==
    { r \in registry[call.sheet_key].start_row ..
            registry[call.sheet_key].start_row + Window :
        r \notin registry[call.sheet_key].skip_rows }

\* C35: placement never targets live data: for every sheet content, a table
\* whose lookahead window is completely filled included, the row returned
\* by get_first_empty_row has an empty liveness cell.
C35_ReturnedRowIsFree ==
    (call.op = "get_first_empty_row" /\ call.ret.raised = None)
        => ReturnedCell = Empty

\* The read was answered, every row of the window is occupied, and the row
\* returned, the first one after the window, is occupied as well.
FilledWindowPlacedOnData ==
    /\ call.op = "get_first_empty_row"
    /\ call.read = "ok"
    /\ call.ret.raised = None
    /\ \A r \in WindowRows : sheets[call.sheet_key][r][call.check_column] # Empty
    /\ call.ret.row > registry[call.sheet_key].start_row + Window
    /\ ReturnedCell # Empty

\* What does hold: when the read is answered and the window has a free row
\* that is no skip row, the row returned is free.
FreeRowInWindowIsFree ==
    (/\ call.op = "get_first_empty_row"
     /\ call.read = "ok"
     /\ call.ret.raised = None
     /\ \E r \in WindowRows : sheets[call.sheet_key][r][call.check_column] = Empty)
        => ReturnedCell = Empty



\* -------------------------------------------- claims on the operation ids
\* C36: an operation id stays locatable: after a write_pure_income that
\* returned a row, every operation id the table held before the write is
\* still found by find_row_by_operation_id, and so is the id written when
\* every store call answered; no write of another operation overwrites an
\* identifier cell.
C36_IdsStayLocatable ==
    (call.op = "write_pure_income" /\ call.raised = None)
        => \A id \in call.ids_before :
              find_row_by_operation_id(sheets, "pure_income", id, "ok").row # 0

\* A write_pure_income returned the row of an earlier operation and its
\* identifier cell now holds the new id: the earlier id is found nowhere.
IdOverwritten ==
    /\ call.op = "write_pure_income"
    /\ call.raised = None
    /\ OtherId \in call.ids_before
    /\ call.ret = PURE_INCOME.start_row
    /\ sheets["pure_income"][call.ret]["A"] = call.operation_id
    /\ find_row_by_operation_id(sheets, "pure_income", OtherId, "ok").row = 0

\* What does hold: when every store call of the write answered, the ids held
\* before it are still found, and the id written is found at the row
\* returned.
AnsweredWriteKeepsIds ==
    (call.op = "write_pure_income" /\ call.answered)
        => /\ \A id \in call.ids_before :
                 find_row_by_operation_id(sheets, "pure_income", id, "ok").row # 0
           /\ find_row_by_operation_id(sheets, "pure_income", call.operation_id, "ok").row
                  = call.ret



\* ---------------------------------------- claims on the expanding write
\* expense_confirm ran write_row_expanding_table and it returned a row.
ExpandingWriteReturned ==
    /\ call.op = "expense_confirm"
    /\ call.raised = None
    /\ call.ret # 0

\* C37: write_row_expanding_table reports success only for a complete row:
\* when it returns a row number, the identifier cell and every data cell of
\* that row hold the values passed in; a cell write that fails makes it
\* raise instead of returning.
C37_ReturnedRowComplete ==
    ExpandingWriteReturned
        => /\ sheets["expenses"][call.ret]["A"] = call.operation_id
           /\ sheets["expenses"][call.ret]["F"] = call.data[1]
           /\ sheets["expenses"][call.ret]["G"] = call.data[2]

\* A row number was returned although an update_cell of the row had failed:
\* the cell of the category does not hold the category.
ReturnedRowIncomplete ==
    /\ ExpandingWriteReturned
    /\ sheets["expenses"][call.ret]["A"] = call.operation_id
    /\ sheets["expenses"][call.ret]["G"] # call.data[2]



\* ------------------------------------------- payments of two sessions
\* The handlers of another chat that run between the preview of this chat
\* and its confirmation.
\* Each chat has its own dialogue (the FSM key holds the chat id), the
\* ledger is shared.

\* What the other chat pays.
OtherPayments == {30, 120}

\* payment_confirm of another chat, its dialogue at waiting_for_confirmation
\* with a client and an amount of its own: distribute_payment_fifo on the
\* shared ledger. This chat's dialogue stays as it is; the trace is that of
\* this chat's handlers.
OtherSessionPayment ==
    /\ fsm.state = PaymentWaitingForConfirmation
    /\ call.op = "payment_enter_amount"
    /\ PaidInAll(sheets["clients_data"], CLIENTS_DATA.start_row) <= MaxPaid
    /\ \E client \in ClientNames, payment_amount \in OtherPayments, read \in StoreOutcomes :
       \E st \in Then({ Called(Begin(sheets), "initialize", "service", w) :
                          w \in initialize(sheets) },
                      LAMBDA s : distribute_payment_fifo(s, client, payment_amount, read)) :
          /\ sheets' = st.sheets
          /\ trace' = <<>>
          /\ call' = [op |-> "other_session_payment", client |-> client,
                      payment_amount |-> payment_amount, raised |-> st.raised,
                      updates |-> IF st.raised = None THEN st.ret ELSE <<>>]
    /\ UNCHANGED <<registry, tx, result, last, fsm, sessions>>

\* confirm_order of another chat for an order of the same client: the writes
\* of its try block on the shared store.
OtherSessionOrder ==
    /\ fsm.state = PaymentWaitingForConfirmation
    /\ call.op = "payment_enter_amount"
    /\ \E data \in EnteredOrders :
       \E st \in confirm_order_writes(sheets, [data EXCEPT !.client = fsm.data.client]) :
          /\ sheets' = st.sheets
          /\ trace' = <<>>
          /\ call' = [op |-> "other_session_order", client |-> fsm.data.client,
                      raised |-> st.raised, updates |-> <<>>]
    /\ UNCHANGED <<registry, tx, result, last, fsm, sessions>>

NextInterleaved ==
    \/ ProcessClientSelection
    \/ PaymentEnterAmount
    \/ PaymentConfirm
    \/ OtherSessionPayment
    \/ OtherSessionOrder

SpecInterleaved == InitPayment /\ [][NextInterleaved]_vars

\* ------------------------------------ claims on the previewed distribution
\* The rows and the applied amounts of a list of allocations.
RowsAndAmounts(records) ==
    [i \in DOMAIN records |-> [row |-> records[i].row, applied |-> records[i].applied]]

PreviewedPaidOutdated ==
    /\ PaymentAnswered
    /\ \E j \in DOMAIN call.distribution :
          /\ j \in DOMAIN call.updates
          /\ call.updates[j].old_paid # call.distribution[j].old_paid



\* ------------------------------------------------ the dialogue of a chat
\* The handlers that start a flow and that pick the designer and the client,
\* with the numeric steps of the designer order after them. The session data
\* is a dict: its keys are the domain of fsm.data. A callback handler without
\* a state filter runs whatever the state is: the keyboards of earlier
\* messages stay in the chat and their buttons can be pressed at any time.

WaitingForModel == "DesignerOrderStates:waiting_for_model"
WaitingForDesigner == "DesignerOrderStates:waiting_for_designer"
WaitingForClient == "DesignerOrderStates:waiting_for_client"
PureWaitingForClient == "PureOrderStates:waiting_for_client"
PaymentWaitingForClient == "PaymentStates:waiting_for_client"

\* How a handler that loads a list ends: the list is shown as a keyboard,
\* or the list is empty or its load failed and the name is asked for, or a
\* message of the handler is not delivered and the handler raises.
Loads == {"list", "manual", "TelegramError"}

\* The names on the keyboards and in the messages; "" is a text that
\* strip() leaves empty.
DialogueNames == {"", "c"}

\* The numbers tried at the numeric steps of the dialogue.
DialogueAmounts == Numbers({0, 10000})
DialoguePercents == Numbers({40000})
DialogueSalaries == Numbers({3000, 25000})
DialoguePayments == Numbers({0})

\* cmd_start: state.clear() before the greeting.
CmdStart ==
    /\ fsm' = NoFsm
    /\ call' = [op |-> "cmd_start"]
    /\ UNCHANGED <<registry, sheets, tx, result, last, trace, sessions>>

\* cancel_order: state.clear() before the message.
CancelOrder ==
    /\ fsm # NoFsm
    /\ fsm' = NoFsm
    /\ call' = [op |-> "cancel_order"]
    /\ UNCHANGED <<registry, sheets, tx, result, last, trace, sessions>>

\* start_designer_order: the model menu, then set_state; the session data
\* is left as it is.
StartDesignerOrder ==
    /\ \E sent \in Sends :
          /\ fsm' = IF sent = "delivered" THEN [fsm EXCEPT !.state = WaitingForModel]
                    ELSE fsm
          /\ call' = [op |-> "start_designer_order", reply |-> sent]
    /\ UNCHANGED <<registry, sheets, tx, result, last, trace, sessions>>

\* select_model: the model is stored first; the state is set only when the
\* designer's name has to be typed.
SelectModel ==
    /\ fsm.state = WaitingForModel
    /\ \E model \in {"percent", "salary"}, load \in Loads :
          /\ fsm' = [state |-> IF load = "manual" THEN WaitingForDesigner ELSE fsm.state,
                     data |-> update_data(fsm.data, [model |-> model])]
          /\ call' = [op |-> "select_model", reply |-> load]
    /\ UNCHANGED <<registry, sheets, tx, result, last, trace, sessions>>

\* designer_selected_from_list: no state filter; the designer is stored
\* first.
DesignerSelectedFromList ==
    /\ \E load \in Loads :
          /\ fsm' = [state |-> IF load = "manual" THEN WaitingForClient ELSE fsm.state,
                     data |-> update_data(fsm.data, [designer |-> "d"])]
          /\ call' = [op |-> "designer_selected_from_list", reply |-> load]
    /\ UNCHANGED <<registry, sheets, tx, result, last, trace, sessions>>

\* designer_manual_entry: no state filter.
DesignerManualEntry ==
    /\ \E sent \in Sends :
          /\ fsm' = IF sent = "delivered" THEN [fsm EXCEPT !.state = WaitingForDesigner]
                    ELSE fsm
          /\ call' = [op |-> "designer_manual_entry", reply |-> sent]
    /\ UNCHANGED <<registry, sheets, tx, result, last, trace, sessions>>

\* enter_designer: an empty name is asked for again; else the designer is
\* stored, and the state is set only when the client's name has to be typed.
EnterDesigner ==
    /\ fsm.state = WaitingForDesigner
    /\ \E designer \in {"", "d"}, load \in Loads :
          IF designer = ""
          THEN /\ call' = [op |-> "enter_designer", reply |-> "invalid"]
               /\ UNCHANGED fsm
          ELSE /\ fsm' = [state |-> IF load = "manual" THEN WaitingForClient ELSE fsm.state,
                          data |-> update_data(fsm.data, [designer |-> designer])]
               /\ call' = [op |-> "enter_designer", reply |-> load]
    /\ UNCHANGED <<registry, sheets, tx, result, last, trace, sessions>>

\* process_client_selection: the dialogue it leaves. The progress message is
\* outside the try block; inside it the orders are read, an unknown client
\* is reported, else client, orders and total_debt are stored, the text is
\* sent, and the state is cleared (no debt) or set. A message of the try
\* block that is not delivered ends in the except clause, past both.
process_client_selection(client, sh, init, read, sent) ==
    LET got == get_client_orders_with_debt(sh, client, read)
        data == update_data(fsm.data, [client |-> client, orders |-> got.orders,
                                       total_debt |-> SumOf(got.orders, "debt")])
    IN  IF sent # "delivered" /\ (init.raised # None \/ got.raised # None \/ got.orders = <<>>)
        THEN [reply |-> sent, fsm |-> fsm]
        ELSE IF init.raised # None \/ got.raised # None THEN [reply |-> "error", fsm |-> fsm]
        ELSE IF got.orders = <<>> THEN [reply |-> "not found", fsm |-> fsm]
        ELSE IF sent # "delivered" THEN [reply |-> sent, fsm |-> [fsm EXCEPT !.data = data]]
        ELSE IF SumOf(got.orders, "debt") <= 0 THEN [reply |-> "no debt", fsm |-> NoFsm]
        ELSE [reply |-> "enter amount",
              fsm |-> [state |-> PaymentWaitingForAmount, data |-> data]]

\* client_selected_from_list: no state filter. The flow is taken from the
\* session data: a "model" key means the designer order, else a true
\* "is_pure_order" means the pure order, else the payment.
ClientSelectedFromList ==
    /\ \E client_name \in DialogueNames \ {""}, sent \in Sends,
          init \in initialize(sheets), read \in StoreOutcomes :
          IF "model" \in DOMAIN fsm.data
          THEN /\ fsm' = [state |-> IF sent = "delivered" THEN WaitingForAmount
                                    ELSE fsm.state,
                          data |-> update_data(fsm.data, [client |-> client_name])]
               /\ call' = [op |-> "client_selected_from_list", flow |-> "designer",
                           reply |-> sent]
          ELSE IF "is_pure_order" \in DOMAIN fsm.data /\ fsm.data.is_pure_order
          THEN /\ fsm' = [state |-> IF sent = "delivered" THEN PureWaitingForAmount
                                    ELSE fsm.state,
                          data |-> update_data(fsm.data, [client |-> client_name])]
               /\ call' = [op |-> "client_selected_from_list", flow |-> "pure",
                           reply |-> sent]
          ELSE LET shown == process_client_selection(client_name, sheets, init, read, sent)
               IN  /\ fsm' = shown.fsm
                   /\ call' = [op |-> "client_selected_from_list", flow |-> "payment",
                               reply |-> shown.reply]
    /\ UNCHANGED <<registry, sheets, tx, result, last, trace, sessions>>

\* client_manual_entry: no state filter; the same test of the session data.
ClientManualEntry ==
    /\ \E sent \in Sends :
          /\ fsm' = IF sent # "delivered" THEN fsm
                    ELSE [fsm EXCEPT !.state =
                             IF "model" \in DOMAIN fsm.data THEN WaitingForClient
                             ELSE IF "is_pure_order" \in DOMAIN fsm.data
                                     /\ fsm.data.is_pure_order
                             THEN PureWaitingForClient
                             ELSE PaymentWaitingForClient]
          /\ call' = [op |-> "client_manual_entry", reply |-> sent]
    /\ UNCHANGED <<registry, sheets, tx, result, last, trace, sessions>>

\* enter_client: the client is stored, the amount is asked for, then
\* set_state.
EnterClient ==
    /\ fsm.state = WaitingForClient
    /\ \E client \in DialogueNames, sent \in Sends :
          IF client = ""
          THEN /\ call' = [op |-> "enter_client", reply |-> "invalid"]
               /\ UNCHANGED fsm
          ELSE /\ fsm' = [state |-> IF sent = "delivered" THEN WaitingForAmount
                                    ELSE fsm.state,
                          data |-> update_data(fsm.data, [client |-> client])]
               /\ call' = [op |-> "enter_client", reply |-> sent]
    /\ UNCHANGED <<registry, sheets, tx, result, last, trace, sessions>>

\* pure_order_client: the same for the pure order.
PureOrderClient ==
    /\ fsm.state = PureWaitingForClient
    /\ \E client \in DialogueNames, sent \in Sends :
          IF client = ""
          THEN /\ call' = [op |-> "pure_order_client", reply |-> "invalid"]
               /\ UNCHANGED fsm
          ELSE /\ fsm' = [state |-> IF sent = "delivered" THEN PureWaitingForAmount
                                    ELSE fsm.state,
                          data |-> update_data(fsm.data, [client |-> client])]
               /\ call' = [op |-> "pure_order_client", reply |-> sent]
    /\ UNCHANGED <<registry, sheets, tx, result, last, trace, sessions>>

\* payment_enter_client
PaymentEnterClient ==
    /\ fsm.state = PaymentWaitingForClient
    /\ \E client \in DialogueNames, sent \in Sends,
          init \in initialize(sheets), read \in StoreOutcomes :
          IF client = ""
          THEN /\ call' = [op |-> "payment_enter_client", reply |-> "invalid"]
               /\ UNCHANGED fsm
          ELSE LET shown == process_client_selection(client, sheets, init, read, sent)
               IN  /\ fsm' = shown.fsm
                   /\ call' = [op |-> "payment_enter_client", reply |-> shown.reply]
    /\ UNCHANGED <<registry, sheets, tx, result, last, trace, sessions>>

\* start_pure_order: no state filter; is_pure_order is stored first, the
\* rest of the session data is left as it is; the state is set only when
\* the client's name has to be typed.
StartPureOrder ==
    /\ \E load \in Loads :
          /\ fsm' = [state |-> IF load = "manual" THEN PureWaitingForClient ELSE fsm.state,
                     data |-> update_data(fsm.data, [is_pure_order |-> TRUE])]
          /\ call' = [op |-> "start_pure_order", reply |-> load]
    /\ UNCHANGED <<registry, sheets, tx, result, last, trace, sessions>>

\* add_payment: no state filter; the session data is left as it is.
AddPayment ==
    /\ \E load \in Loads :
          /\ fsm' = [fsm EXCEPT !.state = IF load = "manual" THEN PaymentWaitingForClient
                                           ELSE @]
          /\ call' = [op |-> "add_payment", reply |-> load]
    /\ UNCHANGED <<registry, sheets, tx, result, last, trace, sessions>>

DialogueEnterAmount == enter_amount(DialogueAmounts)
DialogueEnterPercent == enter_percent(DialoguePercents)
DialogueEnterSalary == enter_salary(DialogueSalaries)
DialogueEnterActualPayment == enter_actual_payment(DialoguePayments)

\* The ledger of the chat: the three debts of client "c", oldest first.
DialogueLedger ==
    [r \in CLIENTS_DATA.start_row .. CLIENTS_DATA.start_row + 2 |->
        IF r = CLIENTS_DATA.start_row THEN Order1
        ELSE IF r = CLIENTS_DATA.start_row + 1 THEN Order2
        ELSE Order3]

\* The chat after /start: no state and no data.
InitDialogue ==
    /\ registry = SHEETS_CONFIG
    /\ sheets = [k \in {"clients_data", "general"} |->
                    IF k = "clients_data" THEN DialogueLedger ELSE GeneralOf(DialogueLedger)]
    /\ call = NoCall
    /\ tx = NoTx
    /\ result = NoResult
    /\ last = NoLast
    /\ trace = <<>>
    /\ fsm = NoFsm
    /\ sessions = NoSessions

NextDialogue ==
    \/ CmdStart
    \/ CancelOrder
    \/ StartDesignerOrder
    \/ SelectModel
    \/ DesignerSelectedFromList
    \/ DesignerManualEntry
    \/ EnterDesigner
    \/ ClientSelectedFromList
    \/ ClientManualEntry
    \/ EnterClient
    \/ PureOrderClient
    \/ PaymentEnterClient
    \/ StartPureOrder
    \/ AddPayment
    \/ DialogueEnterAmount
    \/ DialogueEnterPercent
    \/ DialogueEnterSalary
    \/ DialogueEnterActualPayment
    \/ ConfirmOrder

SpecDialogue == InitDialogue /\ [][NextDialogue]_vars

\* ------------------------------------------------ claims on the dialogue
\* The keys the confirmation of a designer order is asked with.
OrderFields ==
    {"model", "designer", "client", "amount", "designer_salary", "agency_income",
     "actual_payment"}

\* C39: whenever the dialogue is in DesignerOrderStates.waiting_for_confirmation,
\* reached by any sequence of button presses and messages, the session data
\* holds model, designer, client, amount, designer_salary, agency_income and
\* actual_payment, and confirm_order does not fail on a missing key.
C39_ConfirmationHasFields ==
    /\ fsm.state = WaitingForConfirmation => OrderFields \subseteq DOMAIN fsm.data
    /\ call.op = "confirm_order" => call.raised # "KeyError"

\* The confirmation was reached in a dialogue that holds the mark of a pure
\* order started before, the designer having been picked from a keyboard.
C39_Witness ==
    /\ fsm.state = WaitingForConfirmation
    /\ call.op = "enter_actual_payment"
    /\ "is_pure_order" \in DOMAIN fsm.data
    /\ OrderFields \subseteq DOMAIN fsm.data

\* The payment step was reached without a designer and refused to go on.
PaymentStepWithoutDesigner ==
    /\ fsm.state = WaitingForActualPayment
    /\ call.op = "enter_actual_payment"
    /\ call.reply = "KeyError"
    /\ "designer" \notin DOMAIN fsm.data



\* ------------------------------------------- claims on the flow continued
\* A client was picked from the keyboard that the handler before had shown.
PickedAfter(started) ==
    /\ call.op = started
    /\ call.reply = "list"
    /\ call'.op = "client_selected_from_list"

SelectionTakenForDesignerOrder ==
    /\ call.op = "client_selected_from_list"
    /\ call.flow = "designer"
    /\ call.reply = "delivered"
    /\ fsm.state = WaitingForAmount
    /\ "is_pure_order" \in DOMAIN fsm.data
    /\ "designer" \notin DOMAIN fsm.data

\* What does hold: with no "model" key in the session data a client picked
\* after start_pure_order continues the pure order, and with neither "model"
\* nor "is_pure_order" a client picked after add_payment goes to the payment
\* flow.
SelectionContinuesCleanFlow ==
    [][/\ (/\ PickedAfter("start_pure_order")
           /\ call'.reply = "delivered"
           /\ "model" \notin DOMAIN fsm.data)
             => fsm'.state = PureWaitingForAmount
       /\ (/\ PickedAfter("add_payment")
           /\ "model" \notin DOMAIN fsm.data
           /\ "is_pure_order" \notin DOMAIN fsm.data)
             => call'.flow = "payment"]_vars
====
